---- MODULE Spec2Model ----
(***************************************************************************)
(* Model of rust-find: the adaptive thread-count policy                    *)
(* (src/finder/thread_pool.rs), the recursive and the parallel directory   *)
(* traversal of src/find.rs, and the walkdir-based walkers of              *)
(* src/finder/walker.rs and src/finder/mod.rs.                             *)
(*                                                                         *)
(* Several specifications share the module:                                *)
(*   SpecPool  AdaptiveThreadPool (update / adjust / get)                  *)
(*   Spec      find_files over a directory tree, sequential or parallel    *)
(*   SpecWalk  FileWalker::walk, FileWalkerIterator and Finder::find       *)
(***************************************************************************)
EXTENDS Integers, Sequences, FiniteSets, TLC

(***************************************************************************)
(* Bounds of the model.                                                    *)
(***************************************************************************)
MaxThreadCfg == 3
MaxDirsPerThread == 2
MaxCpuCount == 3
MaxDirCount == 5
\* directory entries below the root of a modelled tree
MaxNodes == 2
\* largest max_depth option tried (besides None)
MaxDepthOpt == 1
\* failing read_dir calls and failing listing slots in a modelled tree
MaxFaults == 1
\* entries with a dot name in a tree searched by Finder
MaxHidden == 1
\* the longest pattern list handed to a filter constructor
MaxPatterns == 2
\* directory entries below the root of a tree walked for its order
MaxOrderNodes == 3
\* CPUs of the machine a step-by-step Finder search runs on
MaxBridgeCpus == 2
\* symbolic links the operating system follows while it resolves one path
MaxSymlinks == 1

\* usize::MAX, the value a saturating `as usize` cast gives +infinity; it is
\* represented by the largest integer the model checker handles.
UsizeMax == 2147483647

\* "no value yet" for the return-value variables
NoValue == -1

Min2(a, b) == IF a < b THEN a ELSE b
Max2(a, b) == IF a > b THEN a ELSE b

VARIABLES
    config,           \* ThreadPoolConfig: min_threads, max_threads, dirs_per_thread, auto_adjust
    cpu_count,        \* num_cpus::get()
    directory_count,  \* AdaptiveThreadPool.directory_count
    current_threads,  \* AdaptiveThreadPool.current_threads
    dir_count,        \* the directory count loaded by the most recent adjust_thread_count
    ret_adjust,       \* value returned by the most recent adjust_thread_count
    ret_get,          \* value returned by the most recent get_thread_count
    fs,               \* the directory tree under the search root
    options,          \* find.rs FindOptions
    phase,            \* position of find_files
    status,           \* per entry: position of the worker item processing it
    chan,             \* the mpsc channel of parallel_traverse_directory
    results,          \* Ok value of find_files
    error,            \* Err value of find_files
    woptions,         \* finder::options::FindOptions
    api,              \* which entry point of the finder module runs
    hidden,           \* the entries whose base name begins with '.'
    filter,           \* the FileFilter handed to Finder::find
    installed,        \* the FileFilter handed to Finder::with_filter
    wphase,           \* position of the walker
    inner,            \* items the walkdir iterator has yet to yield
    entries,          \* entries collected so far, then the Ok value returned
    is_first,         \* FileWalker::walk: no Ok item seen yet
    skip_root,        \* FileWalkerIterator.skip_root
    werror,           \* Err value returned by the walker
    subject,          \* the filter under construction or built, with its arguments
    dir_entry,        \* the DirEntry handed to FileFilter::matches
    matched,          \* what FileFilter::matches returned
    workers,          \* per rayon worker of the bridge: the entry in hand and its folded Vec
    previous,         \* what an earlier Finder::find on the same tree returned
    cli,              \* the parsed command line (cli.rs Cli)
    validation,       \* what the most recent Cli::validate returned
    frames,           \* the calls of traverse_directory in progress, outermost first
    tasks,            \* the paths handed to the workers and not yet taken
    sent              \* the messages the workers have sent, order left aside

poolVars == <<config, cpu_count, directory_count, current_threads, dir_count,
              ret_adjust, ret_get>>

findVars == <<fs, options, phase, status, chan, results, error>>

walkVars == <<woptions, api, hidden, filter, installed, wphase, inner, entries, is_first,
              skip_root, werror>>

filterVars == <<subject, dir_entry, matched>>

bridgeVars == <<workers, previous>>

cliVars == <<cli, validation>>

stepVars == <<frames, tasks, sent>>

vars == <<poolVars, findVars, walkVars, filterVars, bridgeVars, cliVars, stepVars>>

(***************************************************************************)
(* src/finder/thread_pool.rs                                               *)
(***************************************************************************)
ThreadPoolConfig ==
    [min_threads : 0..MaxThreadCfg,
     max_threads : 0..MaxThreadCfg,
     dirs_per_thread : 0..MaxDirsPerThread,
     auto_adjust : BOOLEAN]

\* (dir_count as f64 / dirs_per_thread as f64).ceil() as usize
\* a zero divisor gives +infinity, which the cast saturates to usize::MAX
ideal_threads(d, per_thread) ==
    IF per_thread = 0 THEN UsizeMax
    ELSE (d + per_thread - 1) \div per_thread

\* mutant: the CPU cap applied without the min_threads floor
new_threads_cpu_cap(d, cfg, cpus) ==
    IF d = 0 THEN cfg.min_threads
    ELSE Min2(Min2(Max2(ideal_threads(d, cfg.dirs_per_thread), cfg.min_threads),
                   cfg.max_threads),
              cpus)

\* mutant: the quotient truncated instead of rounded up
new_threads_floor(d, cfg, cpus) ==
    IF d = 0 THEN cfg.min_threads
    ELSE Min2(Min2(Max2(IF cfg.dirs_per_thread = 0 THEN UsizeMax
                        ELSE d \div cfg.dirs_per_thread,
                        cfg.min_threads),
                   cfg.max_threads),
              Max2(cpus, cfg.min_threads))

\* the value adjust_thread_count computes when auto_adjust is set
new_threads(d, cfg, cpus) ==
    IF d = 0 THEN cfg.min_threads
    ELSE Min2(Min2(Max2(ideal_threads(d, cfg.dirs_per_thread), cfg.min_threads),
                   cfg.max_threads),
              Max2(cpus, cfg.min_threads))

\* AdaptiveThreadPool::new
PoolInit ==
    /\ config \in ThreadPoolConfig
    /\ cpu_count \in 1..MaxCpuCount
    /\ directory_count = 0
    /\ current_threads = config.min_threads
    /\ dir_count = NoValue
    /\ ret_adjust = NoValue
    /\ ret_get = NoValue

update_directory_count ==
    \E count \in 0..MaxDirCount :
        /\ directory_count' = count
        /\ UNCHANGED <<config, cpu_count, current_threads, dir_count, ret_adjust, ret_get, findVars, walkVars,
                   filterVars, bridgeVars, cliVars, stepVars>>

\* mutant: the thread count is recomputed whatever auto_adjust says
adjust_thread_count_always ==
    /\ dir_count' = directory_count
    /\ current_threads' = new_threads(directory_count, config, cpu_count)
    /\ ret_adjust' = new_threads(directory_count, config, cpu_count)
    /\ UNCHANGED <<config, cpu_count, directory_count, ret_get, findVars, walkVars,
                   filterVars, bridgeVars, cliVars, stepVars>>

\* mutant: the stored directory count is consumed by the adjustment
adjust_thread_count_consumes ==
    IF ~config.auto_adjust
    THEN /\ ret_adjust' = current_threads
         /\ UNCHANGED <<config, cpu_count, directory_count, current_threads, dir_count, ret_get, findVars, walkVars,
                   filterVars, bridgeVars, cliVars, stepVars>>
    ELSE /\ dir_count' = directory_count
         /\ directory_count' = 0
         /\ current_threads' = new_threads(directory_count, config, cpu_count)
         /\ ret_adjust' = new_threads(directory_count, config, cpu_count)
         /\ UNCHANGED <<config, cpu_count, ret_get, findVars, walkVars,
                   filterVars, bridgeVars, cliVars, stepVars>>

adjust_thread_count ==
    IF ~config.auto_adjust
    THEN /\ ret_adjust' = current_threads
         /\ UNCHANGED <<config, cpu_count, directory_count, current_threads, dir_count, ret_get, findVars, walkVars,
                   filterVars, bridgeVars, cliVars, stepVars>>
    ELSE /\ dir_count' = directory_count
         /\ current_threads' = new_threads(directory_count, config, cpu_count)
         /\ ret_adjust' = new_threads(directory_count, config, cpu_count)
         /\ UNCHANGED <<config, cpu_count, directory_count, ret_get, findVars, walkVars,
                   filterVars, bridgeVars, cliVars, stepVars>>

get_thread_count ==
    /\ ret_get' = current_threads
    /\ UNCHANGED <<config, cpu_count, directory_count, current_threads, dir_count, ret_adjust, findVars, walkVars,
                   filterVars, bridgeVars, cliVars, stepVars>>

(***************************************************************************)
(* The file system seen by a traversal.                                    *)
(*                                                                         *)
(* Node 0 is the search root; the nodes 1..fs.n are the entries below it,  *)
(* numbered breadth-first, so that the entries of one directory are listed *)
(* in increasing order.  A path is identified with its node.               *)
(*   kind  "file"    anything path.is_dir() is false for                   *)
(*         "dir"     a directory                                           *)
(*         "link"    a symbolic link to a directory; its children are the  *)
(*                   entries seen through the link                         *)
(*         "badent"  a slot of the listing for which the ReadDir iterator  *)
(*                   yields Err                                            *)
(*   fault whether read_dir of the node fails                              *)
(***************************************************************************)
Kinds == {"file", "dir", "link", "badent"}
Faults == {"none", "fail"}
\* the io::ErrorKind of a failing read_dir, drawn when the call is made
ErrorKinds == {"perm", "notfound", "io"}
RootKinds == {"dir", "file", "missing"}

\* entries are numbered breadth-first: a parent precedes its children and
\* the parents are non-decreasing
ParentsOk(n, par) ==
    /\ \A i \in 1..n : par[i] < i
    /\ \A i \in 1..n : \A j \in 1..n : (i < j) => (par[i] <= par[j])

\* only directories and links to directories have children
KindsOk(n, par, kd) ==
    \A i \in 1..n : (par[i] # 0) => (kd[par[i]] \in {"dir", "link"})

\* only a directory can fail to be read; at most MaxFaults failures in a tree
FaultsOk(n, kd, ft) ==
    /\ \A i \in 1..n : (kd[i] \notin {"dir", "link"}) => (ft[i] = "none")
    /\ Cardinality({i \in 0..n : ft[i] # "none"})
         + Cardinality({i \in 1..n : kd[i] = "badent"}) <= MaxFaults

Nodes == 1..fs.n

RECURSIVE Depth(_)
Depth(e) == IF e = 0 THEN 0 ELSE 1 + Depth(fs.parent[e])

RECURSIVE Ancestors(_)
\* the proper ancestors of an entry, the root included
Ancestors(e) == IF e = 0 THEN {} ELSE {fs.parent[e]} \cup Ancestors(fs.parent[e])

\* std::fs::read_dir(path), when it succeeds: the listing in its order
read_dir(p) == SelectSeq([i \in 1..fs.n |-> i], LAMBDA i : fs.parent[i] = p)

is_dir(e) == fs.kind[e] \in {"dir", "link"}
is_symlink(e) == fs.kind[e] = "link"

(***************************************************************************)
(* File names and glob matching (find_files, lines 74-100).                *)
(* A name is a sequence of characters.                                     *)
(***************************************************************************)
Str_a_txt == <<"a", ".", "t", "x", "t">>
Str_b_TXT == <<"b", ".", "T", "X", "T">>
Str_dir1 == <<"d", "i", "r", "1">>
Str_lnk == <<"l", "n", "k">>
Pat_star_txt == <<"*", ".", "t", "x", "t">>

\* the base name of an entry: files alternate between a.txt and b.TXT
file_name(e) ==
    CASE fs.kind[e] = "file" -> IF e % 2 = 1 THEN Str_a_txt ELSE Str_b_TXT
      [] fs.kind[e] = "dir" -> Str_dir1
      [] OTHER -> Str_lnk

UpperOf == [c \in {"a", "b", "d", "i", "k", "l", "n", "r", "t", "x"} |->
              CASE c = "a" -> "A" [] c = "b" -> "B" [] c = "d" -> "D"
                [] c = "i" -> "I" [] c = "k" -> "K" [] c = "l" -> "L"
                [] c = "n" -> "N" [] c = "r" -> "R" [] c = "t" -> "T"
                [] c = "x" -> "X"]

\* U+0130, the capital I with a dot above, and U+0307, the combining dot
Chr_U0130 == "U0130"
Chr_U0307 == "U0307"

\* char::to_lowercase: the characters the lower-case mapping gives; U+0130
\* maps to the two characters 'i' and U+0307
to_lowercase_char(c) ==
    IF c = Chr_U0130 THEN <<"i", Chr_U0307>>
    ELSE IF \E l \in DOMAIN UpperOf : UpperOf[l] = c
    THEN <<CHOOSE l \in DOMAIN UpperOf : UpperOf[l] = c>>
    ELSE <<c>>

RECURSIVE to_lowercase(_)
\* str::to_lowercase
to_lowercase(s) ==
    IF s = <<>> THEN <<>>
    ELSE to_lowercase_char(Head(s)) \o to_lowercase(Tail(s))

RECURSIVE glob_matches(_, _)
\* glob::Pattern::matches for patterns of literals, '?' and '*'
glob_matches(p, s) ==
    IF p = <<>> THEN s = <<>>
    ELSE IF Head(p) = "*"
         THEN \E k \in 0..Len(s) : glob_matches(Tail(p), SubSeq(s, k + 1, Len(s)))
         ELSE /\ s # <<>>
              /\ Head(p) = "?" \/ Head(p) = Head(s)
              /\ glob_matches(Tail(p), Tail(s))

PatternLists == {<<>>, <<Pat_star_txt>>}

\* the closure of the filter at lines 76-99
name_filter(e) ==
    LET text_to_match == IF options.ignore_case THEN to_lowercase(file_name(e))
                         ELSE file_name(e)
    IN  \E i \in 1..Len(options.name_patterns) :
            LET pattern_to_match ==
                    IF options.ignore_case THEN to_lowercase(options.name_patterns[i])
                    ELSE options.name_patterns[i]
            IN  glob_matches(pattern_to_match, text_to_match)

\* lines 75-100: the name filter applied to the traversal's output
apply_name_patterns(rs) ==
    IF options.name_patterns # <<>>
    THEN SelectSeq(rs, LAMBDA e : name_filter(e))
    ELSE rs

(***************************************************************************)
(* src/find.rs: traverse_directory                                         *)
(***************************************************************************)
None == NoValue

\* the entry is a directory the traversal recurses into
\* mutant: a link to a directory is followed whatever follow_links says
recurses_links(e) == is_dir(e)

recurses(e) == is_dir(e) /\ (~is_symlink(e) \/ options.follow_links)

\* lines 210-223: the error of a failed read_dir at max depth
classify(k) ==
    CASE k = "perm" -> "PermissionDenied"
      [] k = "notfound" -> "FileNotFound"
      [] OTHER -> "FilesystemError"

\* lines 228-249: at max depth every readable entry is pushed, none visited
push_entries(es, rs) == rs \o SelectSeq(es, LAMBDA e : fs.kind[e] # "badent")

\* mutant: the depth limit cuts one level early
beyond_max_depth_early(current_depth) ==
    options.max_depth # None /\ current_depth >= options.max_depth

\* lines 200-203: the call is below the depth limit
beyond_max_depth(current_depth) ==
    options.max_depth # None /\ current_depth > options.max_depth

\* lines 204-205: the call is at the depth limit
at_max_depth(current_depth) ==
    options.max_depth # None /\ current_depth = options.max_depth

RECURSIVE traverse_directory(_, _, _, _)
RECURSIVE traverse_entries(_, _, _, _)

\* the result is the Result of the call and the results vector after it;
\* k is the io::ErrorKind a failing read_dir reports
traverse_directory(path, current_depth, rs, k) ==
    IF beyond_max_depth(current_depth)
    THEN [err |-> "none", results |-> rs]
    ELSE IF at_max_depth(current_depth)
    THEN IF fs.fault[path] # "none"
         THEN [err |-> classify(k), results |-> rs]
         ELSE [err |-> "none", results |-> push_entries(read_dir(path), rs)]
    ELSE IF fs.fault[path] # "none"
         THEN [err |-> "FilesystemError", results |-> rs]
         ELSE [err |-> "none",
               results |-> traverse_entries(read_dir(path), current_depth, rs, k)]

\* mutant: an entry is pushed after the entries beneath it
traverse_entries_contents_first(es, current_depth, rs, k) ==
    IF es = <<>> THEN rs
    ELSE LET e == Head(es)
         IN  IF fs.kind[e] = "badent"
             THEN traverse_entries(Tail(es), current_depth, rs, k)
             ELSE LET below == IF recurses(e)
                               THEN traverse_directory(e, current_depth + 1, rs, k).results
                               ELSE rs
                  IN  traverse_entries(Tail(es), current_depth, Append(below, e), k)

\* the loop of lines 265-294 over the listing es
traverse_entries(es, current_depth, rs, k) ==
    IF es = <<>> THEN rs
    ELSE LET e == Head(es)
         IN  IF fs.kind[e] = "badent"
             THEN traverse_entries(Tail(es), current_depth, rs, k)
             ELSE LET pushed == Append(rs, e)
                      after == IF recurses(e)
                               \* an Err of the nested call is logged and dropped
                               THEN traverse_directory(e, current_depth + 1, pushed, k).results
                               ELSE pushed
                  IN  traverse_entries(Tail(es), current_depth, after, k)

(***************************************************************************)
(* src/find.rs: find_files, parallel_traverse_directory and the workers    *)
(***************************************************************************)
OkMsg(e) == [tag |-> "Ok", path |-> e, kind |-> "none"]
ErrMsg(k, p) == [tag |-> "Err", path |-> p, kind |-> k]

FindOptions ==
    [max_depth : {None} \cup 0..MaxDepthOpt,
     follow_links : BOOLEAN,
     parallel : BOOLEAN,
     name_patterns : PatternLists,
     ignore_case : BOOLEAN]

FindInit ==
    /\ \E n \in 0..MaxNodes :
         \E par \in [1..n -> 0..MaxNodes] :
           /\ ParentsOk(n, par)
           /\ \E kd \in [1..n -> Kinds] :
                /\ KindsOk(n, par, kd)
                /\ \E ft \in [0..n -> Faults] :
                     /\ FaultsOk(n, kd, ft)
                     /\ \E rk \in RootKinds :
                          /\ (rk # "dir") => (n = 0 /\ ft[0] = "none")
                          /\ fs = [n |-> n, parent |-> par, kind |-> kd,
                                   fault |-> ft, root |-> rk]
    /\ options \in FindOptions
    /\ options.name_patterns = <<>> => ~options.ignore_case
    /\ phase = "start"
    /\ status = [e \in 1..fs.n |-> "idle"]
    /\ chan = <<>>
    /\ results = <<>>
    /\ error = "none"

\* no file system is looked at
FsIdle ==
    fs = [n |-> 0, parent |-> <<>>, kind |-> <<>>, fault |-> [i \in {0} |-> "none"],
          root |-> "dir"]

\* nothing of find.rs is running
FindIdle ==
    /\ options = [max_depth |-> None, follow_links |-> FALSE, parallel |-> FALSE,
                  name_patterns |-> <<>>, ignore_case |-> FALSE]
    /\ phase = "idle"
    /\ status = [e \in 1..fs.n |-> "idle"]
    /\ chan = <<>>
    /\ results = <<>>
    /\ error = "none"

\* lines 54-64: the root does not exist or is not a directory
find_files_bad_root ==
    /\ phase = "start"
    /\ fs.root # "dir"
    /\ phase' = "done"
    /\ error' = IF fs.root = "missing" THEN "FileNotFound" ELSE "Other"
    /\ UNCHANGED <<fs, options, status, chan, results, poolVars, walkVars, filterVars, bridgeVars, cliVars, stepVars>>

\* lines 66-102 with options.parallel = false
find_files_sequential ==
    /\ phase = "start"
    /\ fs.root = "dir"
    /\ ~options.parallel
    /\ \E k \in ErrorKinds :
         LET r == traverse_directory(0, 0, <<>>, k)
         IN  IF r.err # "none"
             THEN /\ error' = r.err
                  /\ results' = <<>>
             ELSE /\ error' = "none"
                  /\ results' = apply_name_patterns(r.results)
    /\ phase' = "done"
    /\ UNCHANGED <<fs, options, status, chan, poolVars, walkVars, filterVars, bridgeVars, cliVars, stepVars>>

\* lines 113-124 and the root call of parallel_traverse_impl (lines 146-163):
\* the root is listed and its entries are handed to the workers
parallel_traverse_directory ==
    /\ phase = "start"
    /\ fs.root = "dir"
    /\ options.parallel
    /\ phase' = "par"
    /\ IF fs.fault[0] # "none"
       THEN /\ chan' = Append(chan, ErrMsg("FilesystemError", 0))
            /\ UNCHANGED status
       ELSE /\ status' = [e \in 1..fs.n |-> IF fs.parent[e] = 0 THEN "ready" ELSE "idle"]
            /\ UNCHANGED chan
    /\ UNCHANGED <<fs, options, results, error, poolVars, walkVars, filterVars, bridgeVars, cliVars, stepVars>>

\* mutant: the parallel depth limit cuts one level early
par_beyond_max_depth_early(current_depth) ==
    options.max_depth # None /\ current_depth >= options.max_depth

\* lines 146-150: the nested call is below the depth limit
par_beyond_max_depth(current_depth) ==
    options.max_depth # None /\ current_depth > options.max_depth

\* mutant: a worker sends the path of a directory it lists after the paths
\* of the entries in it that it does not recurse into
worker_entry_children_first(e) ==
    /\ phase = "par"
    /\ status[e] = "ready"
    /\ IF fs.kind[e] = "badent"
       THEN /\ chan' = Append(chan, ErrMsg("FilesystemError", fs.parent[e]))
            /\ status' = [status EXCEPT ![e] = "done"]
       ELSE IF ~recurses(e) \/ par_beyond_max_depth(Depth(e))
       THEN /\ chan' = Append(chan, OkMsg(e))
            /\ status' = [status EXCEPT ![e] = "done"]
       ELSE IF fs.fault[e] # "none"
       THEN /\ chan' = Append(chan, OkMsg(e))
            /\ status' = [status EXCEPT ![e] = "failed"]
       ELSE LET plain == SelectSeq(read_dir(e),
                            LAMBDA x : fs.kind[x] # "badent" /\ ~recurses(x))
            IN  /\ chan' = chan \o [i \in 1..Len(plain) |-> OkMsg(plain[i])]
                              \o <<OkMsg(e)>>
                /\ status' = [x \in 1..fs.n |->
                                 IF x = e THEN "done"
                                 ELSE IF fs.parent[x] = e
                                 THEN (IF fs.kind[x] # "badent" /\ ~recurses(x)
                                       THEN "done" ELSE "ready")
                                 ELSE status[x]]
    /\ UNCHANGED <<fs, options, phase, results, error, poolVars, walkVars, filterVars, bridgeVars, cliVars, stepVars>>

\* lines 164-182: a worker takes an entry of a listing, sends it and, for a
\* directory it recurses into, makes the nested call up to its read_dir
\* (lines 146-163), which hands the entries of the directory to the workers
worker_entry(e) ==
    /\ phase = "par"
    /\ status[e] = "ready"
    /\ IF fs.kind[e] = "badent"
       THEN /\ chan' = Append(chan, ErrMsg("FilesystemError", fs.parent[e]))
            /\ status' = [status EXCEPT ![e] = "done"]
       ELSE /\ chan' = Append(chan, OkMsg(e))
            /\ IF ~recurses(e) \/ par_beyond_max_depth(Depth(e))
               THEN status' = [status EXCEPT ![e] = "done"]
               ELSE IF fs.fault[e] # "none"
               THEN status' = [status EXCEPT ![e] = "failed"]
               ELSE status' = [x \in 1..fs.n |->
                                 IF x = e THEN "done"
                                 ELSE IF fs.parent[x] = e THEN "ready"
                                 ELSE status[x]]
    /\ UNCHANGED <<fs, options, phase, results, error, poolVars, walkVars, filterVars, bridgeVars, cliVars, stepVars>>

\* lines 182-184: the nested call returned Err, the worker sends it
worker_send_err(e) ==
    /\ phase = "par"
    /\ status[e] = "failed"
    /\ chan' = Append(chan, ErrMsg("FilesystemError", e))
    /\ status' = [status EXCEPT ![e] = "done"]
    /\ UNCHANGED <<fs, options, phase, results, error, poolVars, walkVars, filterVars, bridgeVars, cliVars, stepVars>>

\* mutant: the channel is drained while workers are still running
scope_finished_early == TRUE

\* every spawned item has returned: rayon::scope is over
scope_finished == \A e \in 1..fs.n : status[e] \in {"idle", "done"}

\* mutant: only an Err at the head of the channel is seen
first_err_at_head(c) ==
    IF c # <<>> /\ c[1].tag = "Err" THEN 1 ELSE 0

\* the first Err of the channel, 0 if there is none
first_err(c) ==
    IF \E i \in 1..Len(c) : c[i].tag = "Err"
    THEN CHOOSE i \in 1..Len(c) : c[i].tag = "Err" /\ \A j \in 1..(i - 1) : c[j].tag = "Ok"
    ELSE 0

\* lines 127-135, then lines 75-102 of find_files
collect ==
    /\ phase = "par"
    /\ scope_finished
    /\ IF first_err(chan) # 0
       THEN /\ error' = chan[first_err(chan)].kind
            /\ results' = <<>>
       ELSE /\ error' = "none"
            /\ results' = apply_name_patterns([i \in 1..Len(chan) |-> chan[i].path])
    /\ phase' = "done"
    /\ chan' = <<>>
    /\ UNCHANGED <<fs, options, status, poolVars, walkVars, filterVars, bridgeVars, cliVars, stepVars>>

FindNext ==
    \/ find_files_bad_root
    \/ find_files_sequential
    \/ parallel_traverse_directory
    \/ \E e \in 1..fs.n : worker_entry(e)
    \/ \E e \in 1..fs.n : worker_send_err(e)
    \/ collect

(***************************************************************************)
(* src/find.rs call by call, on trees with symbolic links that point back  *)
(* to an ancestor.                                                         *)
(*                                                                         *)
(* fs.target[e] is the directory a "looplink" e resolves to, an ancestor   *)
(* of e (the root included); every other entry resolves to itself.  A path *)
(* is the sequence of the entries it names from the root on: the entry     *)
(* after a looplink is an entry of the link's target.  Resolving a path    *)
(* follows every symbolic link on it, and the operating system follows at  *)
(* most MaxSymlinks of them in one resolution (ELOOP beyond that):         *)
(* Path::is_dir is then false and read_dir fails.                          *)
(***************************************************************************)
CycleKinds == Kinds \cup {"looplink"}

\* the longest path the model lets a call hold; no call reaches it
PathCap == (MaxSymlinks + 2) * (MaxNodes + 1)

resolve(e) == IF fs.kind[e] = "looplink" THEN fs.target[e] ELSE e

\* the directory a path leads to; the empty path is the root
dir_of(path) == IF path = <<>> THEN 0 ELSE resolve(path[Len(path)])

symlinks_on(path) ==
    Cardinality({i \in 1..Len(path) : fs.kind[path[i]] \in {"link", "looplink"}})

\* mutant: the operating system follows any number of symbolic links
resolves_unbounded(path) == TRUE

\* the operating system resolves the path: std::fs::metadata and read_dir
\* succeed as far as the symbolic links go
resolves(path) == symlinks_on(path) <= MaxSymlinks

\* Path::is_dir (lines 179 and 278): false when the path does not resolve
path_is_dir(path) ==
    /\ fs.kind[path[Len(path)]] \in {"dir", "link", "looplink"}
    /\ resolves(path)

\* is_symlink (lines 300-304) reads the entry itself, not its target
path_is_symlink(path) == fs.kind[path[Len(path)]] \in {"link", "looplink"}

\* lines 179-187 and 278-292: the entry is a directory the traversal enters
path_recurses(path) ==
    path_is_dir(path) /\ (~path_is_symlink(path) \/ options.follow_links)

\* std::fs::read_dir(path) returns Err
read_dir_fails(path) == fs.fault[dir_of(path)] # "none" \/ ~resolves(path)

\* a call of traverse_directory up to its loop (lines 199-263): it returns
\* at once, or it holds a listing to go through
traverse_call(path) ==
    IF beyond_max_depth(Len(path)) THEN [tag |-> "Ok"]
    ELSE IF read_dir_fails(path) THEN [tag |-> "Err"]
    ELSE [tag |-> "frame",
          frame |-> [path |-> path, todo |-> read_dir(dir_of(path)),
                     leaf |-> at_max_depth(Len(path))]]

\* nothing is traversed call by call
StepIdle ==
    /\ frames = <<>>
    /\ tasks = {}
    /\ sent = {}

\* find_files lines 66-73 with options.parallel = false: the root call
traverse_start ==
    /\ phase = "start"
    /\ ~options.parallel
    /\ LET r == traverse_call(<<>>)
       IN  IF r.tag = "frame"
           THEN /\ frames' = <<r.frame>>
                /\ phase' = "seq"
                /\ UNCHANGED error
           ELSE /\ phase' = "done"
                /\ UNCHANGED frames
                /\ IF r.tag = "Ok"
                   THEN UNCHANGED error
                   ELSE \E k \in ErrorKinds :
                          error' = IF at_max_depth(0) THEN classify(k)
                                   ELSE "FilesystemError"
    /\ UNCHANGED <<fs, options, status, chan, results, tasks, sent, poolVars, walkVars,
                   filterVars, bridgeVars, cliVars>>

\* one turn of the loop of the innermost call (lines 228-249 at the depth
\* limit, lines 265-293 above it), or its return once the listing is through
traverse_step ==
    /\ phase = "seq"
    /\ LET n == Len(frames)
           top == frames[n]
       IN  /\ Len(top.path) < PathCap
           /\ IF top.todo = <<>>
              THEN /\ frames' = SubSeq(frames, 1, n - 1)
                   /\ phase' = IF n = 1 THEN "done" ELSE "seq"
                   /\ UNCHANGED results
              ELSE LET e == Head(top.todo)
                       p == Append(top.path, e)
                       rest == [frames EXCEPT ![n].todo = Tail(top.todo)]
                   IN  /\ UNCHANGED phase
                       /\ IF fs.kind[e] = "badent"
                          THEN /\ frames' = rest
                               /\ UNCHANGED results
                          ELSE /\ results' = Append(results, p)
                               /\ IF /\ ~top.leaf
                                     /\ path_recurses(p)
                                     /\ traverse_call(p).tag = "frame"
                                  THEN frames' = Append(rest, traverse_call(p).frame)
                                  ELSE frames' = rest
    /\ UNCHANGED <<fs, options, status, chan, error, tasks, sent, poolVars, walkVars,
                   filterVars, bridgeVars, cliVars>>

OkSent(path) == [tag |-> "Ok", path |-> path]
ErrSent(path) == [tag |-> "Err", path |-> path]

\* lines 113-124 and the root call of parallel_traverse_impl (lines 146-163)
parallel_start ==
    /\ phase = "start"
    /\ options.parallel
    /\ phase' = "par"
    /\ IF read_dir_fails(<<>>)
       THEN /\ sent' = {ErrSent(<<>>)}
            /\ UNCHANGED tasks
       ELSE /\ tasks' = {<<c>> : c \in {x \in Nodes : fs.parent[x] = 0}}
            /\ UNCHANGED sent
    /\ UNCHANGED <<fs, options, status, chan, results, error, frames, poolVars, walkVars,
                   filterVars, bridgeVars, cliVars>>

\* lines 163-187: a worker takes an entry of a listing, sends it and, for a
\* directory it enters, makes the nested call (lines 146-163), which hands
\* the entries of that directory to the workers or returns Err, sent on
worker_step(p) ==
    /\ phase = "par"
    /\ p \in tasks
    /\ Len(p) <= PathCap
    /\ IF fs.kind[p[Len(p)]] = "badent"
       THEN /\ sent' = sent \cup {ErrSent(SubSeq(p, 1, Len(p) - 1))}
            /\ tasks' = tasks \ {p}
       ELSE IF ~path_recurses(p) \/ par_beyond_max_depth(Len(p))
       THEN /\ sent' = sent \cup {OkSent(p)}
            /\ tasks' = tasks \ {p}
       ELSE IF read_dir_fails(p)
       THEN /\ sent' = sent \cup {OkSent(p), ErrSent(p)}
            /\ tasks' = tasks \ {p}
       ELSE /\ sent' = sent \cup {OkSent(p)}
            /\ tasks' = (tasks \ {p})
                          \cup {Append(p, c) : c \in {x \in Nodes : fs.parent[x] = dir_of(p)}}
    /\ UNCHANGED <<fs, options, phase, status, chan, results, error, frames, poolVars,
                   walkVars, filterVars, bridgeVars, cliVars>>

RECURSIVE listed(_)
\* the members of a set in a list, one order for all
listed(S) ==
    IF S = {} THEN <<>>
    ELSE LET x == CHOOSE y \in S : TRUE IN <<x>> \o listed(S \ {x})

\* lines 127-135 once every worker has returned: the first Err received is
\* returned, else the paths received (in their order of arrival, which is
\* left aside here)
step_collect ==
    /\ phase = "par"
    /\ tasks = {}
    /\ phase' = "done"
    /\ IF \E m \in sent : m.tag = "Err"
       THEN /\ error' = "FilesystemError"
            /\ UNCHANGED results
       ELSE /\ results' = listed({m.path : m \in sent})
            /\ UNCHANGED error
    /\ UNCHANGED <<fs, options, status, chan, frames, tasks, sent, poolVars, walkVars,
                   filterVars, bridgeVars, cliVars>>

CycleNext ==
    \/ traverse_start
    \/ traverse_step
    \/ parallel_start
    \/ \E p \in tasks : worker_step(p)
    \/ step_collect

(***************************************************************************)
(* The walkdir iterator, as src/finder/walker.rs and src/finder/mod.rs     *)
(* build it: WalkDir::new(root).follow_links(..).max_depth(..).            *)
(*                                                                         *)
(* Two more kinds of entry matter to it:                                   *)
(*   "broken"    a symbolic link whose target does not exist               *)
(*   "looplink"  a symbolic link to one of its own ancestors               *)
(* An item is Ok(entry) or an Err, which carries a path or none and an     *)
(* underlying io::Error ("perm" for PermissionDenied, "io" for any other   *)
(* kind) or none (a symlink loop).                                         *)
(***************************************************************************)
WalkKinds == Kinds \cup {"broken", "looplink"}
NoPath == NoValue
IoKinds == {"perm", "io"}

OkItem(e) == [tag |-> "Ok", path |-> e, io |-> "none"]
ErrItem(p, io) == [tag |-> "Err", path |-> p, io |-> io]

\* mutant: the descent stops one level later
walkdir_at_limit_late(md, depth) == md # None /\ depth > md

\* the depth limit given to max_depth() stops the descent below an entry
walkdir_at_limit(md, depth) == md # None /\ depth >= md

RECURSIVE walkdir_entry(_, _, _, _)
RECURSIVE walkdir_list(_, _, _, _)

\* the items the iterator yields for the entry e, found at the given depth;
\* for this iterator fs.fault is the kind of the failure, "perm" or "io"
walkdir_entry(e, depth, fl, md) ==
    CASE fs.kind[e] = "badent" -> <<ErrItem(NoPath, fs.fault[e])>>
      [] fs.kind[e] = "file" -> <<OkItem(e)>>
      [] fs.kind[e] = "broken" -> IF fl THEN <<ErrItem(e, "io")>> ELSE <<OkItem(e)>>
      [] fs.kind[e] = "looplink" -> IF fl THEN <<ErrItem(e, "none")>> ELSE <<OkItem(e)>>
      [] fs.kind[e] = "link" /\ ~fl -> <<OkItem(e)>>
      [] OTHER ->
            <<OkItem(e)>> \o
            (IF walkdir_at_limit(md, depth) THEN <<>>
             ELSE IF fs.fault[e] # "none" THEN <<ErrItem(e, fs.fault[e])>>
             ELSE walkdir_list(read_dir(e), depth + 1, fl, md))

walkdir_list(es, depth, fl, md) ==
    IF es = <<>> THEN <<>>
    ELSE walkdir_entry(Head(es), depth, fl, md)
            \o walkdir_list(Tail(es), depth, fl, md)

\* everything the iterator yields, the root first
WalkDir(fl, md) ==
    CASE fs.root = "missing" -> <<ErrItem(0, "io")>>
      [] fs.root = "file" -> <<OkItem(0)>>
      [] OTHER ->
            <<OkItem(0)>> \o
            (IF walkdir_at_limit(md, 0) THEN <<>>
             ELSE IF fs.fault[0] # "none" THEN <<ErrItem(0, fs.fault[0])>>
             ELSE walkdir_list(read_dir(0), 1, fl, md))

\* DirEntry::file_type of a yielded entry
file_type(e, fl) ==
    IF e = 0 THEN (IF fs.root = "dir" THEN "dir" ELSE "file")
    ELSE CASE fs.kind[e] = "file" -> "file"
           [] fs.kind[e] = "dir" -> "dir"
           [] fs.kind[e] = "link" -> IF fl THEN "dir" ELSE "symlink"
           [] OTHER -> "symlink"

(***************************************************************************)
(* src/finder/options.rs, src/finder/walker.rs, src/finder/mod.rs          *)
(***************************************************************************)
WalkOptions ==
    [max_depth : {None} \cup 0..MaxDepthOpt,
     follow_links : BOOLEAN,
     ignore_permission_errors : BOOLEAN,
     ignore_io_errors : BOOLEAN,
     ignore_hidden : BOOLEAN]

Filters == {"all", "files", "dirs"}

\* cli.rs build_options, lines 88-91, without thread arguments
DefaultDirsPerThread == 10
FinderThreadConfig(cpus) ==
    [min_threads |-> 1, max_threads |-> cpus,
     dirs_per_thread |-> DefaultDirsPerThread, auto_adjust |-> TRUE]

\* a directory fails to be read, and a slot of a listing fails, with one of
\* the kinds FaultKinds; at most MaxFaults failures and bad links in a tree
WalkFaultsOk(n, kd, ft, FaultKinds) ==
    /\ ft[0] \in {"none"} \cup FaultKinds
    /\ \A i \in 1..n :
          CASE kd[i] \in {"dir", "link"} -> ft[i] \in {"none"} \cup FaultKinds
            [] kd[i] = "badent" -> ft[i] \in FaultKinds
            [] OTHER -> ft[i] = "none"
    /\ Cardinality({i \in 0..n : ft[i] # "none"})
         + Cardinality({i \in 1..n : kd[i] \in {"broken", "looplink"}})
         <= MaxFaults

WalkInit(Apis, FaultKinds) ==
    /\ \E n \in 0..MaxNodes :
         \E par \in [1..n -> 0..MaxNodes] :
           /\ ParentsOk(n, par)
           /\ \E kd \in [1..n -> WalkKinds] :
                /\ KindsOk(n, par, kd)
                /\ \E ft \in [0..n -> {"none"} \cup IoKinds] :
                     /\ WalkFaultsOk(n, kd, ft, FaultKinds)
                     /\ \E rk \in RootKinds :
                          /\ (rk # "dir") => (n = 0 /\ ft[0] = "none")
                          /\ fs = [n |-> n, parent |-> par, kind |-> kd,
                                   fault |-> ft, root |-> rk]
    /\ woptions \in WalkOptions
    /\ api \in Apis
    /\ hidden \in {h \in SUBSET (0..fs.n) : Cardinality(h) <= MaxHidden}
    /\ filter \in Filters
    /\ installed = "none"
    \* what only Finder reads is fixed for the walkers, and what only the
    \* walkers read is fixed for Finder
    /\ (api # "finder") => (hidden = {} /\ filter = "all" /\ woptions.ignore_hidden)
    /\ (api = "finder") => (woptions.ignore_permission_errors
                             /\ ~woptions.ignore_io_errors)
    /\ wphase = "new"
    /\ inner = <<>>
    /\ entries = <<>>
    /\ is_first = TRUE
    /\ skip_root = FALSE
    /\ werror = "none"

\* nothing of the finder module is running
WalkIdle ==
    /\ woptions = [max_depth |-> None, follow_links |-> FALSE,
                   ignore_permission_errors |-> TRUE, ignore_io_errors |-> FALSE,
                   ignore_hidden |-> TRUE]
    /\ api = "none"
    /\ hidden = {}
    /\ filter = "all"
    /\ installed = "none"
    /\ wphase = "idle"
    /\ inner = <<>>
    /\ entries = <<>>
    /\ is_first = TRUE
    /\ skip_root = FALSE
    /\ werror = "none"

\* walker.rs lines 25-34 (FileWalker::walk) and 89-104 (FileWalkerIterator::new)
walker_new ==
    /\ wphase = "new"
    /\ api \in {"walk", "iterator"}
    /\ inner' = WalkDir(woptions.follow_links, woptions.max_depth)
    /\ wphase' = "loop"
    /\ UNCHANGED <<woptions, api, hidden, filter, installed, entries, is_first, skip_root, werror,
                   poolVars, findVars, filterVars, bridgeVars, cliVars, stepVars>>

\* mutant: a permission error aborts whatever the options say
walk_error_perm_aborts(item) ==
    IF item.path # NoPath
    THEN IF item.io = "none" THEN "WalkDirError"
         ELSE IF item.io = "perm" THEN "PermissionDenied"
         ELSE (IF ~woptions.ignore_io_errors THEN "FilesystemError" ELSE "none")
    ELSE "none"

\* walker.rs lines 44-71: the error FileWalker::walk returns for an Err item,
\* "none" when it goes on
walk_error(item) ==
    IF item.path # NoPath
    THEN IF item.io = "none" THEN "WalkDirError"
         ELSE IF item.io = "perm"
         THEN (IF ~woptions.ignore_permission_errors THEN "PermissionDenied" ELSE "none")
         ELSE (IF ~woptions.ignore_io_errors THEN "FilesystemError" ELSE "none")
    ELSE "none"

\* walker.rs lines 36-72: one turn of the loop of FileWalker::walk
walk_item ==
    /\ wphase = "loop"
    /\ api = "walk"
    /\ inner # <<>>
    /\ LET item == Head(inner)
       IN  IF item.tag = "Ok"
           THEN /\ entries' = IF ~is_first THEN Append(entries, item.path) ELSE entries
                /\ is_first' = FALSE
                /\ inner' = Tail(inner)
                /\ UNCHANGED <<wphase, werror>>
           ELSE IF walk_error(item) # "none"
           THEN /\ werror' = walk_error(item)
                /\ wphase' = "done"
                /\ entries' = <<>>
                /\ inner' = <<>>
                /\ UNCHANGED is_first
           ELSE /\ inner' = Tail(inner)
                /\ UNCHANGED <<entries, is_first, wphase, werror>>
    /\ UNCHANGED <<woptions, api, hidden, filter, installed, skip_root, poolVars, findVars,
                   filterVars, bridgeVars, cliVars, stepVars>>

\* walker.rs line 75: the iterator is exhausted, FileWalker::walk returns Ok
walk_return ==
    /\ wphase = "loop"
    /\ api = "walk"
    /\ inner = <<>>
    /\ wphase' = "done"
    /\ UNCHANGED <<woptions, api, hidden, filter, installed, inner, entries, is_first, skip_root,
                   werror, poolVars, findVars, filterVars, bridgeVars, cliVars, stepVars>>

\* walker.rs lines 123-151: what FileWalkerIterator::next does with an Err
\* item: the error it returns, "none" when it goes on
iterator_error(item) ==
    IF item.path # NoPath /\ item.io # "none"
    THEN IF item.io = "perm"
         THEN (IF woptions.ignore_permission_errors THEN "none" ELSE "PermissionDenied")
         ELSE (IF woptions.ignore_io_errors THEN "none" ELSE "FilesystemError")
    ELSE IF woptions.ignore_io_errors THEN "none" ELSE "WalkDirError"

RECURSIVE iterator_next(_, _)
\* walker.rs lines 110-155: one call of FileWalkerIterator::next on the
\* remaining items; the result is the returned Option, the items left and
\* the skip_root flag
iterator_next(items, skip) ==
    IF items = <<>>
    THEN [ret |-> "None", path |-> NoPath, err |-> "none", inner |-> items, skip_root |-> skip]
    ELSE LET item == Head(items)
         IN  IF item.tag = "Ok"
             THEN IF ~skip /\ item.path = 0
                  THEN iterator_next(Tail(items), TRUE)
                  ELSE [ret |-> "SomeOk", path |-> item.path, err |-> "none",
                        inner |-> Tail(items), skip_root |-> TRUE]
             ELSE IF iterator_error(item) = "none"
                  THEN iterator_next(Tail(items), skip)
                  ELSE [ret |-> "SomeErr", path |-> item.path, err |-> iterator_error(item),
                        inner |-> Tail(items), skip_root |-> skip]

\* walker.rs line 210: collect::<Result<Vec<_>, _>>() takes the next item
iterator_collect ==
    /\ wphase = "loop"
    /\ api = "iterator"
    /\ LET r == iterator_next(inner, skip_root)
       IN  /\ skip_root' = r.skip_root
           /\ CASE r.ret = "SomeOk" ->
                     /\ entries' = Append(entries, r.path)
                     /\ inner' = r.inner
                     /\ UNCHANGED <<wphase, werror>>
                [] r.ret = "SomeErr" ->
                     /\ werror' = r.err
                     /\ entries' = <<>>
                     /\ inner' = <<>>
                     /\ wphase' = "done"
                [] OTHER ->
                     /\ wphase' = "done"
                     /\ inner' = r.inner
                     /\ UNCHANGED <<entries, werror>>
    /\ UNCHANGED <<woptions, api, hidden, filter, installed, is_first, poolVars, findVars,
                   filterVars, bridgeVars, cliVars, stepVars>>

\* mutant: the items are taken up to the first Err
ok_entries_until_err(items) ==
    LET errs == {i \in 1..Len(items) : items[i].tag = "Err"}
        oks == IF errs = {} THEN items
               ELSE SubSeq(items, 1, (CHOOSE i \in errs : \A j \in errs : i <= j) - 1)
    IN  [i \in 1..Len(oks) |-> oks[i].path]

\* the Ok items of a sequence of items: filter_map(Result::ok)
ok_entries(items) ==
    LET oks == SelectSeq(items, LAMBDA it : it.tag = "Ok")
    IN  [i \in 1..Len(oks) |-> oks[i].path]

\* FileFilter::matches of the filter handed to find
filter_matches(e) ==
    CASE filter = "all" -> TRUE
      [] filter = "files" -> file_type(e, woptions.follow_links) = "file"
      [] OTHER -> file_type(e, woptions.follow_links) = "dir"

\* mutant: an entry inside a hidden directory counts as hidden
not_hidden_inherited(e) ==
    ~woptions.ignore_hidden \/ (e \notin hidden /\ Ancestors(e) \cap hidden = {})

\* mod.rs lines 86-88
not_hidden(e) == ~woptions.ignore_hidden \/ e \notin hidden

\* the base name of an entry the iterator yields, the root included
entry_name(e) == IF e = 0 THEN Str_dir1 ELSE file_name(e)

\* main.rs lines 45-50: the filters main hands to with_filter, here
\* NameFilter::new("*.txt")
InstallableFilters == {"name"}

\* filter.rs lines 144-154: NameFilter::matches of the case-sensitive filter
\* built from "*.txt"
installed_matches(f, e) ==
    IF f = "name" THEN glob_matches(Pat_star_txt, entry_name(e)) ELSE TRUE

\* mod.rs lines 46-52: Finder::with_filter takes the filter and returns the
\* Finder as it is; installed only records the argument
with_filter ==
    /\ wphase = "new"
    /\ api = "finder"
    /\ installed = "none"
    /\ \E f \in InstallableFilters : installed' = f
    /\ UNCHANGED <<woptions, api, hidden, filter, wphase, inner, entries, is_first,
                   skip_root, werror, poolVars, findVars, filterVars, bridgeVars, cliVars, stepVars>>

\* all orders of the elements of a set
Permutations_of(S) ==
    {q \in [1..Cardinality(S) -> S] : \A i, j \in 1..Cardinality(S) : (i # j) => (q[i] # q[j])}

\* mod.rs lines 55-93: Finder::find, which calls find_parallel; the rayon
\* bridge collects the entries that pass in any order
find_parallel ==
    /\ wphase = "new"
    /\ api = "finder"
    /\ \E walked \in {ok_entries(WalkDir(woptions.follow_links,
                                         IF woptions.max_depth = None THEN UsizeMax
                                         ELSE woptions.max_depth))} :
         \* count_directories, lines 96-104
         \E count \in {Cardinality({i \in 1..Len(walked) :
                          file_type(walked[i], woptions.follow_links) = "dir"})} :
           \* lines 83-92
           \E passed \in {{walked[i] : i \in {j \in 1..Len(walked) :
                              not_hidden(walked[j]) /\ filter_matches(walked[j])}}} :
             /\ directory_count' = count
             /\ dir_count' = count
             /\ current_threads' = new_threads(count, config, cpu_count)
             /\ ret_adjust' = new_threads(count, config, cpu_count)
             /\ entries' \in Permutations_of(passed)
    /\ wphase' = "done"
    /\ UNCHANGED <<woptions, api, hidden, filter, installed, inner, is_first, skip_root, werror,
                   config, cpu_count, ret_get, findVars, filterVars, bridgeVars, cliVars, stepVars>>

WalkNext ==
    \/ walker_new
    \/ walk_item
    \/ walk_return
    \/ iterator_collect

FinderNext == find_parallel

\* main.rs lines 52-77: main installs the name filter, if any, and searches
MainNext ==
    \/ with_filter
    \/ find_parallel

(***************************************************************************)
(* Finder::find_parallel step by step: the serial part of the pipeline     *)
(* (mod.rs lines 83-88) is an iterator the worker threads of rayon's       *)
(* global pool pull from, one item at a time; each worker filters the      *)
(* item it holds and folds it into a Vec of its own, and collect() joins   *)
(* these Vecs.  The global pool was never configured (no ThreadPoolBuilder *)
(* call in the repository), so it has one thread for each CPU.             *)
(***************************************************************************)
IdleWorker == [item |-> NoValue, vec |-> <<>>]

\* the workers the bridge can run on
rayon_threads == 1..cpu_count

\* no bridge is running and no earlier search is remembered
BridgeIdle ==
    /\ workers = <<>>
    /\ previous = [some |-> FALSE]

\* mod.rs lines 68-81: the pre-pass counts the directories, the pool is
\* adjusted, the walker is created; no entry has been taken yet
find_parallel_start ==
    /\ wphase = "new"
    /\ api = "finder"
    /\ \E items \in {WalkDir(woptions.follow_links,
                             IF woptions.max_depth = None THEN UsizeMax
                             ELSE woptions.max_depth)} :
         \* count_directories, lines 96-104
         \E count \in {Cardinality({i \in 1..Len(ok_entries(items)) :
                          file_type(ok_entries(items)[i], woptions.follow_links) = "dir"})} :
             /\ directory_count' = count
             /\ dir_count' = count
             /\ current_threads' = new_threads(count, config, cpu_count)
             /\ ret_adjust' = new_threads(count, config, cpu_count)
             /\ inner' = items
    /\ workers' = [w \in rayon_threads |-> IdleWorker]
    /\ wphase' = "bridge"
    /\ UNCHANGED <<woptions, api, hidden, filter, installed, entries, is_first, skip_root,
                   werror, config, cpu_count, ret_get, previous, findVars, filterVars, cliVars, stepVars>>

RECURSIVE serial_next(_)
\* mod.rs lines 84-88: next() of the iterator handed to par_bridge, which
\* drops the Err items and the hidden entries; the result is the entry, if
\* any, and the items left
serial_next(items) ==
    IF items = <<>> THEN [some |-> FALSE, rest |-> <<>>]
    ELSE IF Head(items).tag = "Ok" /\ not_hidden(Head(items).path)
    THEN [some |-> TRUE, entry |-> Head(items).path, rest |-> Tail(items)]
    ELSE serial_next(Tail(items))

\* mod.rs line 89: a worker that holds nothing takes the next entry
bridge_take(w) ==
    /\ wphase = "bridge"
    /\ workers[w].item = NoValue
    /\ inner # <<>>
    /\ \E nxt \in {serial_next(inner)} :
         /\ inner' = nxt.rest
         /\ workers' = IF nxt.some THEN [workers EXCEPT ![w].item = nxt.entry]
                       ELSE workers
    /\ UNCHANGED <<woptions, api, hidden, filter, installed, wphase, entries, is_first,
                   skip_root, werror, previous, poolVars, findVars, filterVars, cliVars, stepVars>>

\* mod.rs lines 90-91: the worker asks the filter about the entry it holds
\* and keeps the path of an entry that passes
bridge_process(w) ==
    /\ wphase = "bridge"
    /\ workers[w].item # NoValue
    /\ workers' = [workers EXCEPT
                     ![w] = [item |-> NoValue,
                             vec |-> IF filter_matches(workers[w].item)
                                     THEN Append(workers[w].vec, workers[w].item)
                                     ELSE workers[w].vec]]
    /\ UNCHANGED <<woptions, api, hidden, filter, installed, wphase, inner, entries,
                   is_first, skip_root, werror, previous, poolVars, findVars, filterVars, cliVars, stepVars>>

RECURSIVE joined(_, _)
\* the Vecs of the workers 1..k, one after the other
joined(ws, k) == IF k = 0 THEN <<>> ELSE joined(ws, k - 1) \o ws[k].vec

\* mod.rs line 92: the iterator is exhausted and every worker is through
find_parallel_collect ==
    /\ wphase = "bridge"
    /\ inner = <<>>
    /\ \A w \in rayon_threads : workers[w].item = NoValue
    /\ entries' = joined(workers, cpu_count)
    /\ workers' = <<>>
    /\ wphase' = "done"
    /\ UNCHANGED <<woptions, api, hidden, filter, installed, inner, is_first, skip_root,
                   werror, previous, poolVars, findVars, filterVars, cliVars, stepVars>>

\* mod.rs lines 55-60: Finder::find is called once more on the same tree
\* with the same filter; what the first call returned is remembered
find_again ==
    /\ wphase = "done"
    /\ api = "finder"
    /\ ~previous.some
    /\ previous' = [some |-> TRUE, val |-> entries]
    /\ entries' = <<>>
    /\ wphase' = "new"
    /\ UNCHANGED <<woptions, api, hidden, filter, installed, inner, is_first, skip_root,
                   werror, workers, poolVars, findVars, filterVars, cliVars, stepVars>>

BridgeNext ==
    \/ find_parallel_start
    \/ \E w \in rayon_threads : bridge_take(w)
    \/ \E w \in rayon_threads : bridge_process(w)
    \/ find_parallel_collect

(***************************************************************************)
(* src/finder/filter.rs                                                    *)
(*                                                                         *)
(* One filter is built and asked about one entry.  A pattern and a base    *)
(* name are sequences of characters; the patterns are made of literals,    *)
(* '?', '*' and '['.                                                       *)
(***************************************************************************)
Str_U0130 == <<Chr_U0130>>
\* a base name that is not valid UTF-8: OsStr::to_str gives None
NotUtf8 == <<"NotUtf8">>
to_str_is_some(name) == name # NotUtf8

Pat_empty == <<>>
Pat_bracket == <<"[">>
Pat_question == <<"?">>
PatternPool == {Pat_star_txt, Pat_question, Pat_empty, Pat_bracket}
PatternSeqs == UNION {[1..n -> PatternPool] : n \in 0..MaxPatterns}

FileTypes == {"file", "dir", "symlink", "other"}
DirEntries == [name : {Str_a_txt, Str_b_TXT, Str_U0130, NotUtf8}, file_type : FileTypes]
TypeCodes == {"f", "d", "l", "x", "F", ""}

\* glob::Pattern::new fails on a '[' that no ']' closes after at least one
\* character, and on three '*' in a row
pattern_error(p) ==
    \/ \E i \in 1..Len(p) : p[i] = "[" /\ ~\E j \in (i + 2)..Len(p) : p[j] = "]"
    \/ \E i \in 1..(Len(p) - 2) : p[i] = "*" /\ p[i + 1] = "*" /\ p[i + 2] = "*"

\* lines 95-106
NameFilter_new(pattern) ==
    IF pattern_error(pattern) THEN [tag |-> "PatternError"]
    ELSE [tag |-> "Ok", val |-> [pattern |-> pattern, ignore_case |-> FALSE]]

\* lines 120-124
NameFilter_new_ignore_case(pattern) ==
    IF NameFilter_new(pattern).tag # "Ok" THEN NameFilter_new(pattern)
    ELSE [tag |-> "Ok", val |-> [pattern |-> pattern, ignore_case |-> TRUE]]

\* lines 129-131
matches_case_sensitive(f, name) == glob_matches(f.pattern, name)

\* lines 134-140
matches_case_insensitive(f, name) ==
    LET name_lower == to_lowercase(name)
        pattern_lower == to_lowercase(f.pattern)
    IN  IF pattern_error(pattern_lower) THEN FALSE
        ELSE glob_matches(pattern_lower, name_lower)

\* lines 144-154
NameFilter_matches(f, e) ==
    IF to_str_is_some(e.name)
    THEN IF f.ignore_case THEN matches_case_insensitive(f, e.name)
         ELSE matches_case_sensitive(f, e.name)
    ELSE FALSE

\* mutant: no pattern is rejected for being empty
validate_patterns_none(patterns) == "Ok"

\* lines 201-210
validate_patterns(patterns) ==
    IF \E i \in 1..Len(patterns) : patterns[i] = <<>> THEN "PatternError" ELSE "Ok"

RECURSIVE create_filters(_, _)
\* lines 213-224: collect() stops at the first pattern that fails; calls is
\* the number of NameFilters the closure was asked to build
create_filters(patterns, ignore_case) ==
    IF patterns = <<>> THEN [tag |-> "Ok", val |-> <<>>, calls |-> 0]
    ELSE LET first == IF ignore_case THEN NameFilter_new_ignore_case(Head(patterns))
                      ELSE NameFilter_new(Head(patterns))
         IN  IF first.tag # "Ok" THEN [tag |-> first.tag, calls |-> 1]
             ELSE LET rest == create_filters(Tail(patterns), ignore_case)
                  IN  IF rest.tag # "Ok"
                      THEN [tag |-> rest.tag, calls |-> rest.calls + 1]
                      ELSE [tag |-> "Ok", val |-> <<first.val>> \o rest.val,
                            calls |-> rest.calls + 1]

\* lines 190-198
MultiNameFilter_new(patterns, ignore_case) ==
    IF validate_patterns(patterns) # "Ok"
    THEN [tag |-> validate_patterns(patterns), calls |-> 0]
    ELSE LET built == create_filters(patterns, ignore_case)
         IN  IF built.tag # "Ok" THEN built
             ELSE [tag |-> "Ok",
                   val |-> [kind |-> "MultiNameFilter", patterns |-> built.val,
                            any_match |-> TRUE],
                   calls |-> built.calls]

\* mutant: an empty list matches nothing in OR mode
MultiNameFilter_matches_no_empty(f, e) ==
    IF f.any_match
    THEN \E i \in 1..Len(f.patterns) : NameFilter_matches(f.patterns[i], e)
    ELSE \A i \in 1..Len(f.patterns) : NameFilter_matches(f.patterns[i], e)

\* lines 250-262
MultiNameFilter_matches(f, e) ==
    IF f.patterns = <<>> THEN TRUE
    ELSE IF f.any_match
    THEN \E i \in 1..Len(f.patterns) : NameFilter_matches(f.patterns[i], e)
    ELSE \A i \in 1..Len(f.patterns) : NameFilter_matches(f.patterns[i], e)

\* mutant: an unknown code selects regular files
TypeFilter_new_lenient(type_code) ==
    CASE type_code = "d" -> [tag |-> "Ok", val |-> [file_type |-> "Directory"]]
      [] type_code = "l" -> [tag |-> "Ok", val |-> [file_type |-> "SymbolicLink"]]
      [] OTHER -> [tag |-> "Ok", val |-> [file_type |-> "File"]]

\* lines 307-316
TypeFilter_new(type_code) ==
    CASE type_code = "f" -> [tag |-> "Ok", val |-> [file_type |-> "File"]]
      [] type_code = "d" -> [tag |-> "Ok", val |-> [file_type |-> "Directory"]]
      [] type_code = "l" -> [tag |-> "Ok", val |-> [file_type |-> "SymbolicLink"]]
      [] OTHER -> [tag |-> "InvalidFileType"]

\* lines 320-326
TypeFilter_matches(f, e) ==
    CASE f.file_type = "File" -> e.file_type = "file"
      [] f.file_type = "Directory" -> e.file_type = "dir"
      [] OTHER -> e.file_type = "symlink"

\* Option<&[String]>
NoPatterns == [some |-> FALSE]
SomePatterns(ps) == [some |-> TRUE, val |-> ps]

\* lines 43-67: FilterFactory::create_filters
FilterFactory_create_filters(name_patterns, ignore_case, absolute_path, relative_path) ==
    LET given == name_patterns.some /\ name_patterns.val # <<>>
        name ==
            IF given THEN MultiNameFilter_new(name_patterns.val, ignore_case)
            ELSE [tag |-> "Ok", calls |-> 0]
        name_filters == IF given /\ name.tag = "Ok" THEN <<name.val>> ELSE <<>>
        path_filters ==
            IF absolute_path THEN <<[kind |-> "Absolute"]>>
            ELSE IF relative_path THEN <<[kind |-> "Relative"]>>
            ELSE <<>>
    IN  IF name.tag # "Ok" THEN [tag |-> name.tag, calls |-> name.calls]
        ELSE [tag |-> "Ok", val |-> name_filters \o path_filters, calls |-> name.calls]

NoMatch == [called |-> FALSE, value |-> FALSE]

FilterInit ==
    /\ subject = [kind |-> "none"]
    /\ dir_entry \in DirEntries
    /\ matched = NoMatch

\* no filter of filter.rs is built
FilterIdle ==
    /\ subject = [kind |-> "none"]
    /\ dir_entry = [name |-> Str_a_txt, file_type |-> "file"]
    /\ matched = NoMatch

call_NameFilter_new ==
    /\ subject.kind = "none"
    /\ \E p \in PatternPool, ic \in BOOLEAN :
         subject' = [kind |-> "NameFilter", pattern |-> p, ignore_case |-> ic,
                     result |-> IF ic THEN NameFilter_new_ignore_case(p)
                                ELSE NameFilter_new(p)]
    /\ UNCHANGED <<dir_entry, matched, poolVars, findVars, walkVars, bridgeVars, cliVars, stepVars>>

call_MultiNameFilter_new ==
    /\ subject.kind = "none"
    /\ \E ps \in PatternSeqs, ic \in BOOLEAN :
         subject' = [kind |-> "MultiNameFilter", patterns |-> ps, ignore_case |-> ic,
                     result |-> MultiNameFilter_new(ps, ic)]
    /\ UNCHANGED <<dir_entry, matched, poolVars, findVars, walkVars, bridgeVars, cliVars, stepVars>>

\* lines 242-245
with_any_match ==
    /\ subject.kind = "MultiNameFilter"
    /\ subject.result.tag = "Ok"
    /\ ~matched.called
    /\ \E any_match \in BOOLEAN :
         subject' = [subject EXCEPT !.result.val.any_match = any_match]
    /\ UNCHANGED <<dir_entry, matched, poolVars, findVars, walkVars, bridgeVars, cliVars, stepVars>>

call_TypeFilter_new ==
    /\ subject.kind = "none"
    /\ \E code \in TypeCodes :
         subject' = [kind |-> "TypeFilter", type_code |-> code,
                     result |-> TypeFilter_new(code)]
    /\ UNCHANGED <<dir_entry, matched, poolVars, findVars, walkVars, bridgeVars, cliVars, stepVars>>

call_create_filters ==
    /\ subject.kind = "none"
    /\ \E np \in {NoPatterns} \cup {SomePatterns(ps) : ps \in PatternSeqs},
          ic \in BOOLEAN, ab \in BOOLEAN, rel \in BOOLEAN :
         subject' = [kind |-> "FilterFactory", patterns |-> np, ignore_case |-> ic,
                     absolute_path |-> ab, relative_path |-> rel,
                     result |-> FilterFactory_create_filters(np, ic, ab, rel)]
    /\ UNCHANGED <<dir_entry, matched, poolVars, findVars, walkVars, bridgeVars, cliVars, stepVars>>

\* FileFilter::matches of the filter that was built
call_matches ==
    /\ subject.kind \in {"NameFilter", "MultiNameFilter", "TypeFilter"}
    /\ subject.result.tag = "Ok"
    /\ ~matched.called
    /\ matched' =
         [called |-> TRUE,
          value |-> CASE subject.kind = "NameFilter" ->
                            NameFilter_matches(subject.result.val, dir_entry)
                      [] subject.kind = "MultiNameFilter" ->
                            MultiNameFilter_matches(subject.result.val, dir_entry)
                      [] OTHER -> TypeFilter_matches(subject.result.val, dir_entry)]
    /\ UNCHANGED <<subject, dir_entry, poolVars, findVars, walkVars, bridgeVars, cliVars, stepVars>>

FilterNext ==
    \/ call_NameFilter_new
    \/ call_MultiNameFilter_new
    \/ with_any_match
    \/ call_TypeFilter_new
    \/ call_create_filters
    \/ call_matches

(***************************************************************************)
(* src/cli.rs and the head of main (src/main.rs lines 11-58)               *)
(*                                                                         *)
(* The command line names one search path, the root of the tree.           *)
(***************************************************************************)
\* cli.rs lines 13-77: the arguments that reach the options and the filter;
\* a pattern is a valid glob or a malformed one, and clap lets at most one of
\* name and iname be given (conflicts_with)
CliPatternSeqs == UNION {[1..n -> {Pat_star_txt, Pat_bracket}] : n \in 0..MaxPatterns}
CliArgs ==
    {c \in [max_depth : {None} \cup 0..MaxDepthOpt,
            follow_links : BOOLEAN,
            no_ignore_hidden : BOOLEAN,
            name : CliPatternSeqs,
            iname : CliPatternSeqs] : c.name = <<>> \/ c.iname = <<>>}

\* no command line was parsed
CliIdle ==
    /\ cli = [max_depth |-> None, follow_links |-> FALSE, no_ignore_hidden |-> FALSE,
              name |-> <<>>, iname |-> <<>>]
    /\ validation = "none"

\* cli.rs lines 81-93, without the thread arguments and the error flags
build_options ==
    [max_depth |-> cli.max_depth,
     follow_links |-> cli.follow_links,
     ignore_permission_errors |-> FALSE,
     ignore_io_errors |-> FALSE,
     ignore_hidden |-> ~cli.no_ignore_hidden]

\* cli.rs lines 104-111
validate_paths == IF fs.root = "missing" THEN "FileNotFound" ELSE "Ok"

\* cli.rs lines 114-125
validate_max_depth ==
    IF cli.max_depth # None /\ cli.max_depth = 0 THEN "Other" ELSE "Ok"

\* cli.rs lines 128-143
validate_name_patterns ==
    LET patterns == IF cli.name # <<>> THEN cli.name ELSE cli.iname
    IN  IF \E i \in 1..Len(patterns) : pattern_error(patterns[i])
        THEN "PatternError" ELSE "Ok"

\* cli.rs lines 96-101
validate ==
    IF validate_paths # "Ok" THEN validate_paths
    ELSE IF validate_max_depth # "Ok" THEN validate_max_depth
    ELSE IF validate_name_patterns # "Ok" THEN validate_name_patterns
    ELSE "Ok"

\* a caller of Cli::validate: the tests of cli.rs, lines 166-236
call_validate ==
    /\ validation = "none"
    /\ validation' = validate
    /\ UNCHANGED <<cli, poolVars, findVars, walkVars, filterVars, bridgeVars, stepVars>>

\* main.rs lines 36-42
main_name_patterns ==
    IF cli.name # <<>> THEN cli.name
    ELSE IF cli.iname # <<>> THEN cli.iname
    ELSE <<>>

\* main.rs lines 13-58: main parses the command line, builds the options
\* and the name filter of the first pattern, and builds the Finder; a
\* pattern NameFilter::new rejects makes main return the error
main_start ==
    /\ wphase = "cli"
    /\ IF main_name_patterns # <<>> /\ NameFilter_new(main_name_patterns[1]).tag # "Ok"
       THEN /\ werror' = NameFilter_new(main_name_patterns[1]).tag
            /\ wphase' = "failed"
            /\ UNCHANGED <<woptions, installed>>
       ELSE /\ woptions' = build_options
            /\ installed' = IF main_name_patterns # <<>> THEN "name" ELSE "none"
            /\ wphase' = "new"
            /\ UNCHANGED werror
    /\ UNCHANGED <<api, hidden, filter, inner, entries, is_first, skip_root, poolVars,
                   findVars, filterVars, bridgeVars, cliVars, stepVars>>

\* main.rs lines 11-77
CliNext ==
    \/ call_validate
    \/ main_start
    \/ find_parallel

PoolNext ==
    \/ update_directory_count
    \/ adjust_thread_count
    \/ get_thread_count

PoolIdle ==
    /\ config = [min_threads |-> 0, max_threads |-> 0, dirs_per_thread |-> 0,
                 auto_adjust |-> FALSE]
    /\ cpu_count = 1
    /\ directory_count = 0
    /\ current_threads = 0
    /\ dir_count = NoValue
    /\ ret_adjust = NoValue
    /\ ret_get = NoValue

InitPool == PoolInit /\ FsIdle /\ FindIdle /\ WalkIdle /\ FilterIdle /\ BridgeIdle /\ CliIdle /\ StepIdle

SpecPool == InitPool /\ [][PoolNext]_vars

Init == FindInit /\ PoolIdle /\ WalkIdle /\ FilterIdle /\ BridgeIdle /\ CliIdle /\ StepIdle

Next == FindNext

Spec == Init /\ [][Next]_vars

\* rayon runs every spawned item, and the calling thread goes on when the
\* scope is over
FairSpec == Init /\ [][Next]_vars /\ WF_vars(Next)

\* Finder::new (mod.rs lines 31-43) builds the pool from the options
FinderPoolInit ==
    /\ cpu_count = MaxCpuCount
    /\ config = FinderThreadConfig(cpu_count)
    /\ directory_count = 0
    /\ current_threads = config.min_threads
    /\ dir_count = NoValue
    /\ ret_adjust = NoValue
    /\ ret_get = NoValue

InitWalk ==
    WalkInit({"walk", "iterator"}, IoKinds) /\ PoolIdle /\ FindIdle /\ FilterIdle /\ BridgeIdle /\ CliIdle /\ StepIdle

SpecWalk == InitWalk /\ [][WalkNext]_vars

\* find.rs lines 363-369 (test_parallel_vs_serial): the tree
\* root/{file1.txt, file2.txt, dir1/file3.txt}; entries 1 and 2 are the
\* files, 3 is dir1 and 4 is dir1/file3.txt
ScenarioTree ==
    [n |-> 4, parent |-> <<0, 0, 0, 3>>, kind |-> <<"file", "file", "dir", "file">>,
     fault |-> [i \in 0..4 |-> "none"], root |-> "dir"]

\* the scenario tree walked once by sequential find_files and once by
\* FileWalker::walk, links not followed and no name pattern
InitScenario ==
    /\ fs = ScenarioTree
    /\ options \in FindOptions
    /\ ~options.follow_links /\ ~options.parallel
    /\ options.name_patterns = <<>> /\ ~options.ignore_case
    /\ phase = "start"
    /\ status = [e \in 1..fs.n |-> "idle"]
    /\ chan = <<>>
    /\ results = <<>>
    /\ error = "none"
    /\ woptions \in WalkOptions
    /\ ~woptions.follow_links /\ woptions.ignore_hidden
    /\ api = "walk"
    /\ hidden = {}
    /\ filter = "all"
    /\ installed = "none"
    /\ wphase = "new"
    /\ inner = <<>>
    /\ entries = <<>>
    /\ is_first = TRUE
    /\ skip_root = FALSE
    /\ werror = "none"
    /\ PoolIdle
    /\ FilterIdle
    /\ BridgeIdle
    /\ CliIdle /\ StepIdle

ScenarioNext ==
    \/ find_files_sequential
    \/ walker_new
    \/ walk_item
    \/ walk_return

SpecScenario == InitScenario /\ [][ScenarioNext]_vars

\* Finder drops every Err item, whatever its kind
InitFinder ==
    WalkInit({"finder"}, {"io"}) /\ FinderPoolInit /\ FindIdle /\ FilterIdle /\ BridgeIdle /\ CliIdle /\ StepIdle

SpecFinder == InitFinder /\ [][FinderNext]_vars

\* main.rs lines 61-72: main hands AlwaysTrueFilter to find
InitMain == InitFinder /\ filter = "all"

SpecMain == InitMain /\ [][MainNext]_vars

\* one tree walked by sequential find_files and by FileWalker::walk with the
\* same max_depth and follow_links; the trees have up to MaxOrderNodes entries
InitSequential ==
    /\ \E n \in 0..MaxOrderNodes :
         \E par \in [1..n -> 0..n] :
           /\ ParentsOk(n, par)
           /\ \E kd \in [1..n -> Kinds] :
                /\ KindsOk(n, par, kd)
                /\ \E ft \in [0..n -> {"none", "perm"}] :
                     /\ WalkFaultsOk(n, kd, ft, {"perm"})
                     /\ fs = [n |-> n, parent |-> par, kind |-> kd,
                              fault |-> ft, root |-> "dir"]
    /\ woptions \in WalkOptions
    /\ woptions.ignore_permission_errors /\ ~woptions.ignore_io_errors
    /\ woptions.ignore_hidden
    /\ options = [max_depth |-> woptions.max_depth,
                  follow_links |-> woptions.follow_links, parallel |-> FALSE,
                  name_patterns |-> <<>>, ignore_case |-> FALSE]
    /\ phase = "start"
    /\ status = [e \in 1..fs.n |-> "idle"]
    /\ chan = <<>>
    /\ results = <<>>
    /\ error = "none"
    /\ api = "walk"
    /\ hidden = {}
    /\ filter = "all"
    /\ installed = "none"
    /\ wphase = "new"
    /\ inner = <<>>
    /\ entries = <<>>
    /\ is_first = TRUE
    /\ skip_root = FALSE
    /\ werror = "none"
    /\ PoolIdle
    /\ FilterIdle
    /\ BridgeIdle
    /\ CliIdle /\ StepIdle

SequentialNext ==
    \/ find_files_sequential
    \/ walker_new
    \/ walk_item
    \/ walk_return

SpecSequential == InitSequential /\ [][SequentialNext]_vars

\* a search of Finder followed step by step, on a machine with up to
\* MaxBridgeCpus CPUs; the trees hold files, directories and listing slots
\* that fail
InitBridge ==
    /\ \E n \in 0..MaxNodes :
         \E par \in [1..n -> 0..MaxNodes] :
           /\ ParentsOk(n, par)
           /\ \E kd \in [1..n -> {"file", "dir", "badent"}] :
                /\ KindsOk(n, par, kd)
                /\ \E ft \in [0..n -> {"none", "io"}] :
                     /\ WalkFaultsOk(n, kd, ft, {"io"})
                     /\ fs = [n |-> n, parent |-> par, kind |-> kd,
                              fault |-> ft, root |-> "dir"]
    /\ woptions \in WalkOptions
    /\ woptions.ignore_permission_errors /\ ~woptions.ignore_io_errors
    /\ ~woptions.follow_links
    /\ api = "finder"
    /\ hidden \in {h \in SUBSET (0..fs.n) : Cardinality(h) <= MaxHidden}
    \* names matter only when hidden entries are left out
    /\ ~woptions.ignore_hidden => hidden = {}
    /\ filter \in Filters
    /\ installed = "none"
    /\ wphase = "new"
    /\ inner = <<>>
    /\ entries = <<>>
    /\ is_first = TRUE
    /\ skip_root = FALSE
    /\ werror = "none"
    /\ cpu_count \in 1..MaxBridgeCpus
    /\ config = FinderThreadConfig(cpu_count)
    /\ directory_count = 0
    /\ current_threads = config.min_threads
    /\ dir_count = NoValue
    /\ ret_adjust = NoValue
    /\ ret_get = NoValue
    /\ FindIdle
    /\ FilterIdle
    /\ BridgeIdle
    /\ CliIdle /\ StepIdle

SpecBridge == InitBridge /\ [][BridgeNext]_vars

\* the program started on a command line, before main has looked at it
InitCli ==
    /\ \E n \in 0..MaxNodes :
         \E par \in [1..n -> 0..MaxNodes] :
           /\ ParentsOk(n, par)
           /\ \E kd \in [1..n -> {"file", "dir"}] :
                /\ KindsOk(n, par, kd)
                /\ \E rk \in RootKinds :
                     /\ (rk # "dir") => (n = 0)
                     /\ fs = [n |-> n, parent |-> par, kind |-> kd,
                              fault |-> [i \in 0..n |-> "none"], root |-> rk]
    /\ cli \in CliArgs
    /\ validation = "none"
    /\ woptions = [max_depth |-> None, follow_links |-> FALSE,
                   ignore_permission_errors |-> TRUE, ignore_io_errors |-> FALSE,
                   ignore_hidden |-> TRUE]
    /\ api = "finder"
    /\ hidden \in {h \in SUBSET (0..fs.n) : Cardinality(h) <= MaxHidden}
    /\ cli.no_ignore_hidden => hidden = {}
    /\ filter = "all"
    /\ installed = "none"
    /\ wphase = "cli"
    /\ inner = <<>>
    /\ entries = <<>>
    /\ is_first = TRUE
    /\ skip_root = FALSE
    /\ werror = "none"
    /\ FinderPoolInit
    /\ FindIdle
    /\ FilterIdle
    /\ BridgeIdle
    /\ StepIdle

SpecCli == InitCli /\ [][CliNext]_vars

\* two searches of one Finder, one after the other
RerunNext ==
    \/ BridgeNext
    \/ find_again

SpecRerun == InitBridge /\ [][RerunNext]_vars

\* find_files with parallel = true and no name pattern over the trees of up
\* to MaxOrderNodes entries, which leave the workers more than one order
InitParallel ==
    /\ \E n \in 0..MaxOrderNodes :
         \E par \in [1..n -> 0..n] :
           /\ ParentsOk(n, par)
           /\ \E kd \in [1..n -> Kinds] :
                /\ KindsOk(n, par, kd)
                /\ \E ft \in [0..n -> Faults] :
                     /\ FaultsOk(n, kd, ft)
                     /\ fs = [n |-> n, parent |-> par, kind |-> kd,
                              fault |-> ft, root |-> "dir"]
    /\ options \in FindOptions
    /\ options.parallel
    /\ options.name_patterns = <<>> /\ ~options.ignore_case
    /\ phase = "start"
    /\ status = [e \in 1..fs.n |-> "idle"]
    /\ chan = <<>>
    /\ results = <<>>
    /\ error = "none"
    /\ PoolIdle
    /\ WalkIdle
    /\ FilterIdle
    /\ BridgeIdle
    /\ CliIdle /\ StepIdle

ParallelNext ==
    \/ parallel_traverse_directory
    \/ \E e \in 1..fs.n : worker_entry(e)
    \/ \E e \in 1..fs.n : worker_send_err(e)
    \/ collect

SpecParallel == InitParallel /\ [][ParallelNext]_vars

\* find_files with no name pattern on a directory whose tree may hold a
\* symbolic link back to an ancestor, one at most
InitCycle ==
    /\ \E n \in 0..MaxNodes :
         \E par \in [1..n -> 0..n] :
           /\ ParentsOk(n, par)
           /\ \E kd \in [1..n -> CycleKinds] :
                /\ KindsOk(n, par, kd)
                /\ Cardinality({i \in 1..n : kd[i] = "looplink"}) <= 1
                /\ \E ft \in [0..n -> Faults] :
                     /\ FaultsOk(n, kd, ft)
                     /\ \E tg \in [1..n -> 0..n] :
                          fs = [n |-> n, parent |-> par, kind |-> kd, fault |-> ft,
                                root |-> "dir", target |-> tg]
    /\ \A e \in Nodes : IF fs.kind[e] = "looplink"
                        THEN fs.target[e] \in Ancestors(e)
                        ELSE fs.target[e] = e
    /\ options \in FindOptions
    /\ options.name_patterns = <<>> /\ ~options.ignore_case
    /\ phase = "start"
    /\ status = [e \in 1..fs.n |-> "idle"]
    /\ chan = <<>>
    /\ results = <<>>
    /\ error = "none"
    /\ PoolIdle
    /\ WalkIdle
    /\ FilterIdle
    /\ BridgeIdle
    /\ CliIdle /\ StepIdle

SpecCycle == InitCycle /\ [][CycleNext]_vars

\* the thread of find_files runs on and the rayon workers take every item
\* handed to them
FairSpecCycle == SpecCycle /\ WF_vars(CycleNext)

InitFilter == FilterInit /\ PoolIdle /\ FsIdle /\ FindIdle /\ WalkIdle /\ BridgeIdle /\ CliIdle /\ StepIdle

SpecFilter == InitFilter /\ [][FilterNext]_vars

(***************************************************************************)
(* Claims about the thread-count policy                                    *)
(***************************************************************************)

\* an adjust_thread_count call with auto-adjust enabled has returned
Adjusted == config.auto_adjust /\ ret_adjust # NoValue

\* C9 (as stated): for every configuration with auto-adjust enabled the value
\* returned by adjust_thread_count lies in
\* [min_threads, min(max_threads, max(cpu_count, min_threads))].
C9_Original ==
    Adjusted =>
        /\ ret_adjust >= config.min_threads
        /\ ret_adjust <= Min2(config.max_threads, Max2(cpu_count, config.min_threads))

\* C9 (amended): the same bounds, for every configuration whose
\* min_threads does not exceed max_threads.
C9_Bounds ==
    (Adjusted /\ config.min_threads <= config.max_threads) =>
        /\ ret_adjust >= config.min_threads
        /\ ret_adjust <= config.max_threads
        /\ ret_adjust <= Min2(config.max_threads, Max2(cpu_count, config.min_threads))

\* C9 witness: min_threads exceeds the CPU count, directories were counted,
\* and the floor still won.
C9_Witness ==
    /\ Adjusted
    /\ config.min_threads <= config.max_threads
    /\ config.min_threads > cpu_count
    /\ dir_count > 0
    /\ ret_adjust = config.min_threads

\* ceil(d / per_thread) stated without division: the least k with
\* k * per_thread >= d (d >= 1, per_thread >= 1)
C10_Ceil(d, per_thread) ==
    CHOOSE k \in 1..d : /\ k * per_thread >= d
                        /\ (k - 1) * per_thread < d

C10_Expected ==
    LET upper == Max2(cpu_count, config.min_threads)
        lo(x) == IF x < config.min_threads THEN config.min_threads ELSE x
        hi(x) == IF x > config.max_threads THEN config.max_threads ELSE x
        cap(x) == IF x > upper THEN upper ELSE x
    IN  IF dir_count = 0 THEN config.min_threads
        ELSE IF config.dirs_per_thread = 0
             \* the quotient is unbounded: both upper clamps apply
             THEN cap(hi(UsizeMax))
             ELSE cap(hi(lo(C10_Ceil(dir_count, config.dirs_per_thread))))

\* C10: with auto-adjust enabled adjust_thread_count returns min_threads for a
\* directory count of 0 and otherwise ceil(directory_count / dirs_per_thread)
\* clamped below by min_threads, then above by max_threads, then above by
\* max(cpu_count, min_threads).
C10_Value == Adjusted => ret_adjust = C10_Expected

\* C10 witness: a rounded-up quotient strictly inside all three clamps came back.
C10_Witness ==
    /\ Adjusted
    /\ config.dirs_per_thread = 2
    /\ dir_count = 3
    /\ ret_adjust = 2
    /\ config.min_threads < 2
    /\ config.max_threads > 2

(***************************************************************************)
(* Claims about find_files (src/find.rs)                                   *)
(***************************************************************************)
SeqToSet(q) == {q[i] : i \in 1..Len(q)}

\* find_files has returned from a traversal of a directory root
Returned == phase = "done" /\ fs.root = "dir"

\* every directory on the way from the root to the entry is one the traversal
\* recurses into and can list
Reachable(e) ==
    /\ fs.fault[0] = "none"
    /\ \A a \in Ancestors(e) \ {0} : recurses(a) /\ fs.fault[a] = "none"

\* the traversal calls read_dir on the directory d
Listed(d) ==
    \/ d = 0
    \/ /\ d \in Nodes
       /\ recurses(d)
       /\ Reachable(d)
       /\ options.max_depth = None \/ Depth(d) <= options.max_depth

\* some read of the traversal fails: a read_dir call or a slot of a listing
ReadFails ==
    \/ \E d \in 0..fs.n : Listed(d) /\ fs.fault[d] # "none"
    \/ \E e \in Nodes : fs.kind[e] = "badent" /\ Listed(fs.parent[e])

\* a directory the traversal reads cannot be read
ReadFailsIn == \E d \in 0..fs.n : Listed(d) /\ fs.fault[d] # "none"

\* the entry passes the name filter of find_files
Kept(e) == options.name_patterns = <<>> \/ name_filter(e)

\* C1: when no directory read fails, find_files with parallel = true returns
\* the same set of paths, with the same number of entries, as find_files with
\* parallel = false.
C1_ParallelMatchesSequential ==
    (Returned /\ options.parallel /\ ~ReadFails) =>
        \A k \in ErrorKinds :
            LET r == traverse_directory(0, 0, <<>>, k)
                serial == apply_name_patterns(r.results)
            IN  /\ error = "none"
                /\ r.err = "none"
                /\ Len(results) = Len(serial)
                /\ SeqToSet(results) = SeqToSet(serial)

\* C1 witness: a parallel run over a tree with a subdirectory and an entry in
\* it has returned a non-empty result.
C1_Witness ==
    /\ Returned /\ options.parallel /\ ~ReadFails
    /\ \E e \in Nodes : fs.parent[e] # 0 /\ e \in SeqToSet(results)

\* C3: with a depth limit, a traversal that returns Ok emits every entry at
\* most max_depth + 1 levels below the root (the children of the directories
\* visited at depth max_depth included) and no deeper entry.
C3_DepthLimit ==
    (Returned /\ error = "none" /\ options.max_depth # None) =>
        \A e \in Nodes :
            /\ (Depth(e) > options.max_depth + 1) => (e \notin SeqToSet(results))
            /\ (Depth(e) <= options.max_depth + 1 /\ fs.kind[e] # "badent"
                    /\ Reachable(e) /\ Kept(e))
                 => (e \in SeqToSet(results))

\* C3 witness: with max_depth = 1 an entry directly inside a first-level
\* subdirectory is reported.
C3_Witness ==
    /\ Returned /\ error = "none" /\ options.max_depth = 1
    /\ \E e \in Nodes : Depth(e) = 2 /\ e \in SeqToSet(results)

\* C8: sequential find_files never returns a partial success: a failing read
\* of a directory inside the traversed tree makes it return an error, and on
\* error no entries are returned.
C8_NoPartialSuccess ==
    (Returned /\ ~options.parallel) =>
        /\ ReadFailsIn => error # "none"
        /\ error # "none" => results = <<>>

\* C5 as stated: on the scenario tree the sequential walks return the 4
\* entries file1.txt, file2.txt, dir1, dir1/file3.txt with max_depth = None and
\* the 3 entries file1.txt, file2.txt, dir1 with max_depth = 1.
C5_Original ==
    /\ (phase = "done" /\ options.max_depth = None) =>
            (error = "none" /\ Len(results) = 4 /\ SeqToSet(results) = {1, 2, 3, 4})
    /\ (phase = "done" /\ options.max_depth = 1) =>
            (error = "none" /\ Len(results) = 3 /\ SeqToSet(results) = {1, 2, 3})
    /\ (wphase = "done" /\ woptions.max_depth = None) =>
            (werror = "none" /\ Len(entries) = 4 /\ SeqToSet(entries) = {1, 2, 3, 4})
    /\ (wphase = "done" /\ woptions.max_depth = 1) =>
            (werror = "none" /\ Len(entries) = 3 /\ SeqToSet(entries) = {1, 2, 3})

\* C5: on the scenario tree both sequential walks return the 4 entries with
\* max_depth = None; with max_depth = 1 FileWalker::walk returns the 3 entries
\* file1.txt, file2.txt, dir1, while sequential find_files returns all 4
\* entries and returns the 3 entries with max_depth = 0.
C5_Scenario ==
    /\ (phase = "done" /\ options.max_depth = None) =>
            (error = "none" /\ Len(results) = 4 /\ SeqToSet(results) = {1, 2, 3, 4})
    /\ (phase = "done" /\ options.max_depth = 1) =>
            (error = "none" /\ Len(results) = 4 /\ SeqToSet(results) = {1, 2, 3, 4})
    /\ (phase = "done" /\ options.max_depth = 0) =>
            (error = "none" /\ Len(results) = 3 /\ SeqToSet(results) = {1, 2, 3})
    /\ (wphase = "done" /\ woptions.max_depth = None) =>
            (werror = "none" /\ Len(entries) = 4 /\ SeqToSet(entries) = {1, 2, 3, 4})
    /\ (wphase = "done" /\ woptions.max_depth = 1) =>
            (werror = "none" /\ Len(entries) = 3 /\ SeqToSet(entries) = {1, 2, 3})

\* C5 witness: both walks have returned with max_depth = 1, find_files with 4
\* entries and FileWalker::walk with 3.
C5_Witness ==
    /\ fs = ScenarioTree
    /\ phase = "done" /\ options.max_depth = 1 /\ Len(results) = 4
    /\ wphase = "done" /\ woptions.max_depth = 1 /\ Len(entries) = 3

\* the walkers of walker.rs have returned
WalkReturned == wphase = "done" /\ api \in {"walk", "iterator"}

\* C4: FileWalker::walk with max_depth = 0 over a readable root directory
\* returns exactly the immediate children of the root.
C4_MaxDepthZero ==
    (wphase = "done" /\ api = "walk" /\ werror = "none" /\ fs.root = "dir"
        /\ fs.fault[0] = "none" /\ woptions.max_depth = 0) =>
        SeqToSet(entries) = {e \in Nodes : fs.parent[e] = 0 /\ fs.kind[e] # "badent"}

\* the options make FileWalker::walk ignore the kind of the error
Ignorable(item) ==
    \/ item.io = "perm" /\ woptions.ignore_permission_errors
    \/ item.io = "io" /\ woptions.ignore_io_errors

\* C6: FileWalker::walk returns an error exactly when the traversal yields an
\* error whose kind the options do not make ignorable, with or without a path
\* and with or without an underlying I/O error.
C6_ErrorPolicy ==
    (wphase = "done" /\ api = "walk") =>
        LET items == WalkDir(woptions.follow_links, woptions.max_depth)
        IN  (werror # "none") <=>
                (\E i \in 1..Len(items) :
                     items[i].tag = "Err" /\ ~Ignorable(items[i]))

\* the only failures of the tree are directories that cannot be read for lack
\* of permission, and there is one
OnlyPermissionDenied ==
    /\ fs.root = "dir"
    /\ \E d \in 0..fs.n : fs.fault[d] = "perm"
    /\ \A d \in 0..fs.n : fs.fault[d] \in {"none", "perm"}
    /\ \A e \in Nodes :
          /\ fs.kind[e] # "badent"
          /\ woptions.follow_links => (fs.kind[e] \notin {"broken", "looplink"})

\* the entry is within the depth limit and below no unreadable directory and
\* no link that is not followed
OutsideUnreadable(e) ==
    /\ woptions.max_depth = None \/ Depth(e) <= woptions.max_depth
    /\ \A a \in Ancestors(e) :
          /\ fs.fault[a] = "none"
          /\ a = 0 \/ fs.kind[a] = "dir" \/ (fs.kind[a] = "link" /\ woptions.follow_links)

\* C7: with ignore_permission_errors = true a walk over a tree whose only
\* failures are directories unreadable for lack of permission returns Ok with
\* every entry outside the unreadable directories and none inside them.
C7_PermissionIgnored ==
    (WalkReturned /\ woptions.ignore_permission_errors /\ OnlyPermissionDenied) =>
        /\ werror = "none"
        /\ SeqToSet(entries) = {e \in Nodes : OutsideUnreadable(e)}
        /\ Len(entries) = Cardinality({e \in Nodes : OutsideUnreadable(e)})

\* C7 witness: a walk has returned the unreadable directory itself and left
\* out an entry inside it.
C7_Witness ==
    /\ WalkReturned /\ woptions.ignore_permission_errors /\ OnlyPermissionDenied
    /\ werror = "none"
    /\ \E d \in Nodes :
          /\ fs.fault[d] = "perm" /\ d \in SeqToSet(entries)
          /\ \E e \in Nodes : fs.parent[e] = d /\ e \notin SeqToSet(entries)

\* C2: the root is never in what Finder::find returns.
C2_RootExcluded ==
    (wphase = "done" /\ api = "finder") => (0 \notin SeqToSet(entries))

\* C11: with auto-adjust disabled, every call of adjust_thread_count and of
\* get_thread_count returns the configured min_threads, whatever directory
\* counts were stored before.
C11_NoAutoAdjust ==
    ~config.auto_adjust =>
        /\ (ret_adjust # NoValue) => (ret_adjust = config.min_threads)
        /\ (ret_get # NoValue) => (ret_get = config.min_threads)

\* C11 witness: with auto-adjust disabled and a directory count stored for
\* which the recomputation would give another value, both calls have
\* returned min_threads.
C11_Witness ==
    /\ ~config.auto_adjust
    /\ directory_count > 0
    /\ new_threads(directory_count, config, cpu_count) # config.min_threads
    /\ ret_adjust = config.min_threads
    /\ ret_get = config.min_threads

\* the entries the traversal of Finder::find_parallel visits
FinderWalked ==
    SeqToSet(ok_entries(WalkDir(woptions.follow_links,
                                IF woptions.max_depth = None THEN UsizeMax
                                ELSE woptions.max_depth)))

\* C12: a search run as main runs it reports exactly the visited entries that pass the hidden
\* rule, the filter handed to find and the filter installed with with_filter,
\* each once.
C12_AllFiltersApply ==
    (wphase = "done" /\ api = "finder") =>
        /\ SeqToSet(entries) =
              {e \in FinderWalked : /\ not_hidden(e)
                                    /\ filter_matches(e)
                                    /\ installed_matches(installed, e)}
        /\ Len(entries) = Cardinality(SeqToSet(entries))

\* a MultiNameFilter has been built
MultiBuilt == subject.kind = "MultiNameFilter" /\ subject.result.tag = "Ok"

\* the NameFilters of the built MultiNameFilter that match the entry
MultiHits ==
    {i \in 1..Len(subject.result.val.patterns) :
        NameFilter_matches(subject.result.val.patterns[i], dir_entry)}

\* C13: MultiNameFilter::matches returns true when the pattern list is empty;
\* otherwise in OR mode, the mode MultiNameFilter::new gives, it returns true
\* iff some NameFilter matches, and in AND mode iff all of them match.
C13_MultiNameRule ==
    MultiBuilt =>
        /\ MultiNameFilter_new(subject.patterns, subject.ignore_case).val.any_match
        /\ matched.called =>
              (matched.value <=>
                  IF subject.result.val.patterns = <<>> THEN TRUE
                  ELSE IF subject.result.val.any_match THEN MultiHits # {}
                  ELSE MultiHits = 1..Len(subject.result.val.patterns))

\* C13 witness: in AND mode a filter of two patterns, one of which matches
\* the entry, has returned false.
C13_Witness ==
    /\ MultiBuilt
    /\ ~subject.result.val.any_match
    /\ Len(subject.result.val.patterns) = 2
    /\ Cardinality(MultiHits) = 1
    /\ matched.called /\ ~matched.value

\* the pattern list handed to the constructor
GivenPatterns ==
    IF subject.kind = "MultiNameFilter" THEN subject.patterns
    ELSE IF subject.patterns.some THEN subject.patterns.val
    ELSE <<>>

\* C14: MultiNameFilter::new and FilterFactory::create_filters return a
\* pattern error and no filter when any pattern of the list is empty or a
\* malformed glob, wherever it stands; when a pattern is empty no NameFilter
\* was built before the error.
C14_ConstructionErrors ==
    (subject.kind \in {"MultiNameFilter", "FilterFactory"}) =>
        /\ (\E i \in 1..Len(GivenPatterns) :
                 GivenPatterns[i] = Pat_empty \/ GivenPatterns[i] = Pat_bracket)
              => (subject.result.tag = "PatternError"
                    /\ "val" \notin DOMAIN subject.result)
        /\ (\E i \in 1..Len(GivenPatterns) : GivenPatterns[i] = Pat_empty)
              => (subject.result.calls = 0)

\* C14 witness: the list holds a malformed glob followed by an empty pattern;
\* the constructor has failed without building a NameFilter.
C14_Witness ==
    /\ subject.kind \in {"MultiNameFilter", "FilterFactory"}
    /\ GivenPatterns = <<Pat_bracket, Pat_empty>>
    /\ subject.result.tag = "PatternError"
    /\ subject.result.calls = 0

\* C15: a case-sensitive NameFilter returns what the glob gives on the base
\* name, a case-insensitive one what the lower-cased glob gives on the
\* lower-cased name; "*.txt" keeps a.txt, and keeps b.TXT only when case is
\* ignored; a name kept by the case-sensitive filter of an all-lower-case
\* pattern is kept by the case-insensitive filter of that pattern.
C15_NameFilterRule ==
    (subject.kind = "NameFilter" /\ subject.result.tag = "Ok" /\ matched.called
        /\ to_str_is_some(dir_entry.name)) =>
        /\ ~subject.ignore_case =>
              (matched.value <=> glob_matches(subject.pattern, dir_entry.name))
        /\ subject.ignore_case =>
              (matched.value <=> glob_matches(to_lowercase(subject.pattern),
                                              to_lowercase(dir_entry.name)))
        /\ (subject.pattern = Pat_star_txt /\ dir_entry.name = Str_a_txt)
              => matched.value
        /\ (subject.pattern = Pat_star_txt /\ dir_entry.name = Str_b_TXT)
              => (matched.value <=> subject.ignore_case)
        /\ (subject.ignore_case /\ to_lowercase(subject.pattern) = subject.pattern
                /\ glob_matches(subject.pattern, dir_entry.name))
              => matched.value

\* the file type a type code selects
SelectedType(code) ==
    CASE code = "f" -> "file" [] code = "d" -> "dir" [] code = "l" -> "symlink"

\* C16: TypeFilter::new succeeds exactly for the codes f, d and l and returns
\* InvalidFileType otherwise; the built filter matches an entry iff the
\* entry's file type is the selected one, and at most one of the three
\* filters matches an entry.
C16_TypeFilterRule ==
    (subject.kind = "TypeFilter") =>
        /\ (subject.result.tag = "Ok") <=> (subject.type_code \in {"f", "d", "l"})
        /\ (subject.result.tag # "Ok") => (subject.result.tag = "InvalidFileType")
        /\ matched.called =>
              (matched.value <=> (dir_entry.file_type = SelectedType(subject.type_code)))
        /\ Cardinality({c \in {"f", "d", "l"} :
                           TypeFilter_matches(TypeFilter_new(c).val, dir_entry)}) <= 1

\* C16 witness: the filter built from "l" has matched a symbolic link.
C16_Witness ==
    /\ subject.kind = "TypeFilter" /\ subject.type_code = "l"
    /\ dir_entry.file_type = "symlink"
    /\ matched.called /\ matched.value

\* Finder::find has returned
FinderReturned == wphase = "done" /\ api = "finder"

\* C17: with ignore_hidden = true Finder::find reports no entry whose base
\* name begins with '.', and the hidden rule excludes nothing else: a visited
\* entry with another name that passes the filter is reported, also inside a
\* hidden directory; with ignore_hidden = false the visited hidden entries
\* that pass the filter are reported.
C17_HiddenRule ==
    FinderReturned =>
        /\ woptions.ignore_hidden => (SeqToSet(entries) \cap hidden = {})
        /\ \A e \in FinderWalked :
              (filter_matches(e) /\ (e \notin hidden \/ ~woptions.ignore_hidden))
                 => (e \in SeqToSet(entries))

\* C17 witness: with ignore_hidden = true an entry with a plain name inside a
\* hidden directory is reported and the directory is not.
C17_Witness ==
    /\ FinderReturned /\ woptions.ignore_hidden
    /\ \E e \in Nodes :
          /\ fs.parent[e] \in hidden /\ fs.parent[e] # 0
          /\ fs.parent[e] \notin SeqToSet(entries)
          /\ e \notin hidden /\ e \in SeqToSet(entries)

\* the traversal of Finder::find reaches the entry and gets it without error
FinderYields(e) ==
    /\ fs.root # "missing"
    /\ woptions.max_depth = None \/ Depth(e) <= woptions.max_depth
    /\ e # 0 => /\ fs.kind[e] # "badent"
                /\ woptions.follow_links => (fs.kind[e] \notin {"broken", "looplink"})
    /\ \A a \in Ancestors(e) :
          /\ fs.fault[a] = "none"
          /\ a = 0 \/ fs.kind[a] = "dir" \/ (fs.kind[a] = "link" /\ woptions.follow_links)

\* the traversal meets an unreadable directory, a broken link or a link loop
FinderMeetsFailure ==
    \/ \E d \in 0..fs.n :
          /\ FinderYields(d) /\ fs.fault[d] # "none"
          /\ woptions.max_depth = None \/ Depth(d) < woptions.max_depth
          /\ d = 0 \/ fs.kind[d] = "dir" \/ (fs.kind[d] = "link" /\ woptions.follow_links)
    \/ \E e \in Nodes :
          /\ fs.kind[e] \in {"broken", "looplink", "badent"}
          /\ FinderYields(fs.parent[e])
          /\ woptions.max_depth = None \/ Depth(e) <= woptions.max_depth

\* C19: Finder::find always returns its list without error: the entries that
\* cannot be read or followed are skipped, and every entry the traversal gets
\* that passes the hidden rule and the filter is in the list.
C19_SearchNeverFails ==
    FinderReturned =>
        /\ werror = "none"
        /\ SeqToSet(entries) =
              {e \in 0..fs.n : FinderYields(e) /\ filter_matches(e)
                                 /\ (e \notin hidden \/ ~woptions.ignore_hidden)}

\* C19 witness: the traversal has met a failure and the search has returned
\* an entry that comes after it in the traversal.
C19_Witness ==
    /\ FinderReturned /\ FinderMeetsFailure /\ werror = "none"
    /\ \E e \in Nodes, x \in Nodes :
          /\ x < e /\ e \in SeqToSet(entries)
          /\ \/ fs.fault[x] # "none"
             \/ fs.kind[x] \in {"broken", "looplink"} /\ woptions.follow_links

\* the entry lies beneath a symbolic link to a directory
BeneathLink(e) == \E a \in Ancestors(e) \ {0} : fs.kind[a] = "link"

\* C18: in a traversal of find_files that returns Ok, sequential or parallel,
\* every directory symlink the traversal comes to is reported, with
\* follow_links = false no entry beneath a directory symlink is reported, and
\* with follow_links = true the entries directly inside it are.
C18_SymlinkRule ==
    (Returned /\ error = "none") =>
        \A e \in Nodes :
            /\ (fs.kind[e] = "link" /\ Reachable(e) /\ Kept(e)
                    /\ (options.max_depth = None \/ Depth(e) <= options.max_depth + 1))
                 => (e \in SeqToSet(results))
            /\ (~options.follow_links /\ BeneathLink(e)) => (e \notin SeqToSet(results))
            /\ (options.follow_links /\ fs.parent[e] # 0
                    /\ fs.kind[fs.parent[e]] = "link" /\ fs.kind[e] # "badent" /\ Reachable(e) /\ Kept(e)
                    /\ (options.max_depth = None \/ Depth(e) <= options.max_depth + 1))
                 => (e \in SeqToSet(results))

\* C18 witness: with follow_links = false a directory symlink is reported and
\* the entry inside it is not.
C18_Witness ==
    /\ Returned /\ error = "none" /\ ~options.follow_links
    /\ \E l \in Nodes, e \in Nodes :
          /\ fs.kind[l] = "link" /\ fs.parent[e] = l
          /\ l \in SeqToSet(results) /\ e \notin SeqToSet(results)

\* the entry and its proper ancestors
AncestorsOrSelf(e) == Ancestors(e) \cup {e}

\* depth-first pre-order with every listing in its order: a comes before b
\* when a is an ancestor of b, or when, below their deepest common ancestor,
\* the branch of a is listed before the branch of b
PreOrderBefore(a, b) ==
    \/ a \in Ancestors(b)
    \/ /\ a # b
       /\ b \notin Ancestors(a)
       /\ \E ca \in AncestorsOrSelf(a) \ {0}, cb \in AncestorsOrSelf(b) \ {0} :
             /\ fs.parent[ca] = fs.parent[cb]
             /\ ca < cb

\* the sequence is in pre-order, and the entries beneath each of its entries
\* directly follow it
InPreOrder(q) ==
    /\ \A i \in 1..Len(q) : \A j \in 1..Len(q) :
          (i < j) => PreOrderBefore(q[i], q[j])
    /\ \A i \in 1..Len(q) : \A j \in 1..Len(q) : \A k \in 1..Len(q) :
          (i < j /\ j < k /\ q[i] \in Ancestors(q[k])) => (q[i] \in Ancestors(q[j]))

\* C20: what sequential find_files and FileWalker::walk return is in
\* depth-first pre-order: a directory comes before the entries beneath it,
\* which follow it as one block, and the listing order of the tree fixes the
\* whole sequence.
C20_PreOrder ==
    /\ (phase = "done" /\ error = "none") => InPreOrder(results)
    /\ (wphase = "done" /\ werror = "none") => InPreOrder(entries)

\* C20 witness: both walks have returned a directory, then the entry inside
\* it, then the entry listed after the directory.
C20_Witness ==
    /\ phase = "done" /\ wphase = "done"
    /\ results = entries
    /\ \E i \in 1..(Len(results) - 2) :
          /\ fs.parent[results[i + 1]] = results[i]
          /\ fs.parent[results[i + 2]] = fs.parent[results[i]]

(***************************************************************************)
(* Claims about the workers of Finder::find_parallel                       *)
(***************************************************************************)

\* the workers that hold an entry
BusyWorkers == {w \in DOMAIN workers : workers[w].item # NoValue}

\* the directories the traversal of Finder yields
FinderDirectories ==
    {e \in FinderWalked : file_type(e, woptions.follow_links) = "dir"}

\* C21: while Finder::find_parallel processes entries, the thread count
\* adjust_thread_count returned is the one computed from the directories the
\* pre-pass counted, it was returned before any entry was processed, and no
\* more workers than that hold an entry at the same time.
C21_WorkersWithinThreadCount ==
    (api = "finder" /\ wphase = "bridge") =>
        /\ ret_adjust = new_threads(Cardinality(FinderDirectories), config, cpu_count)
        /\ directory_count = Cardinality(FinderDirectories)
        /\ Cardinality(BusyWorkers) <= ret_adjust

(***************************************************************************)
(* Claims about the parallel traversal of find_files                       *)
(***************************************************************************)

\* the paths of the messages of a channel
PathsOf(c) == [i \in 1..Len(c) |-> c[i].path]

\* find_files has returned from a parallel traversal
ParallelReturned == Returned /\ options.parallel

\* the entries a parallel traversal without failure sends
ParallelSends == {e \in Nodes : fs.kind[e] # "badent" /\ Listed(fs.parent[e])
                                  /\ Reachable(e)}

\* C28: parallel_traverse_directory drains the channel only when every worker
\* item has returned, the receive loop ends and the function returns, and
\* when no error was sent the list holds each path sent by a worker exactly
\* once: nothing is lost and nothing is duplicated.
C28_DrainAfterWorkers ==
    /\ [][collect =>
            /\ \A e \in Nodes : status[e] \in {"idle", "done"}
            /\ chan' = <<>>
            /\ (\A i \in 1..Len(chan) : chan[i].tag = "Ok") =>
                  /\ error' = "none"
                  /\ results' = apply_name_patterns(PathsOf(chan))
                  /\ \A i, j \in 1..Len(chan) : (i # j) => (chan[i].path # chan[j].path)
                  /\ SeqToSet(PathsOf(chan)) = ParallelSends]_vars
    /\ <>(phase = "done")

\* C28 witness: a parallel traversal over a directory with an entry in a
\* subdirectory has returned every entry of the tree.
C28_Witness ==
    /\ ParallelReturned /\ error = "none"
    /\ options.name_patterns = <<>>
    /\ fs.n >= 2
    /\ \E e \in Nodes : fs.parent[e] # 0
    /\ SeqToSet(results) = Nodes

\* C29: in the list find_files returns from a parallel traversal, under
\* every interleaving of the workers, a directory comes before every entry
\* beneath it, and without a name filter every directory above a reported
\* entry is reported.
C29_DirectoryFirst ==
    (ParallelReturned /\ error = "none") =>
        /\ \A i, j \in 1..Len(results) :
              (results[i] \in Ancestors(results[j])) => (i < j)
        /\ (options.name_patterns = <<>>) =>
              \A j \in 1..Len(results) :
                  Ancestors(results[j]) \ {0} \subseteq SeqToSet(results)

\* C29 witness: a directory and an entry inside it are reported, with an
\* entry of the root sent between the two.
C29_Witness ==
    /\ ParallelReturned /\ error = "none"
    /\ \E i, j, k \in 1..Len(results) :
          /\ i < k /\ k < j
          /\ fs.parent[results[j]] = results[i]
          /\ fs.parent[results[k]] = 0

\* C30: the outcome of the parallel traversal does not depend on the order
\* in which the messages arrive: it is an error iff a worker sent one, which
\* the tree decides; on error no path is returned; and on Ok the set of
\* paths is the one the tree and the options fix.
C30_OutcomeFixedByTree ==
    /\ [][collect =>
            /\ (error' # "none") <=> (\E i \in 1..Len(chan) : chan[i].tag = "Err")
            /\ (error' # "none") => (results' = <<>>)]_vars
    /\ [](ParallelReturned =>
            /\ (error # "none") <=> ReadFails
            /\ (error # "none") => (results = <<>>)
            /\ (error = "none") =>
                  SeqToSet(results) = {e \in ParallelSends : Kept(e)})

\* C30 witness: the traversal has returned an error although the first
\* message on the channel was a path.
C30_Witness ==
    /\ ParallelReturned
    /\ error # "none"
    /\ results = <<>>
    /\ \E e \in Nodes : fs.parent[e] = 0 /\ fs.kind[e] = "file" /\ e = 1

\* C22: find_files with parallel = true returns an error iff find_files with
\* parallel = false returns one on the same tree with the same options, and
\* then an error of the same kind, whatever kind of I/O failure lies under
\* the unreadable directory.
C22_SameErrorPolicy ==
    (Returned /\ options.parallel) =>
        \E k \in ErrorKinds :
            LET serial == traverse_directory(0, 0, <<>>, k)
            IN  /\ (error # "none") <=> (serial.err # "none")
                /\ error = serial.err

(***************************************************************************)
(* Claims about the two walkers of walker.rs                               *)
(***************************************************************************)

RECURSIVE CollectedIterator(_, _, _)
\* what collecting a FileWalkerIterator over the items gives: the entries, or
\* the error and the number of items left behind the one that raised it
CollectedIterator(items, skip, acc) ==
    LET r == iterator_next(items, skip)
    IN  CASE r.ret = "SomeOk" -> CollectedIterator(r.inner, r.skip_root, Append(acc, r.path))
          [] r.ret = "SomeErr" -> [entries |-> <<>>, error |-> r.err, left |-> Len(r.inner)]
          [] OTHER -> [entries |-> acc, error |-> "none", left |-> 0]

RECURSIVE WalkedAll(_, _, _)
\* what FileWalker::walk gives over the items, in the same form
WalkedAll(items, first, acc) ==
    IF items = <<>> THEN [entries |-> acc, error |-> "none", left |-> 0]
    ELSE IF Head(items).tag = "Ok"
    THEN WalkedAll(Tail(items), FALSE, IF first THEN acc ELSE Append(acc, Head(items).path))
    ELSE IF walk_error(Head(items)) # "none"
    THEN [entries |-> <<>>, error |-> walk_error(Head(items)), left |-> Len(items) - 1]
    ELSE WalkedAll(Tail(items), first, acc)

\* C27: over the same items of the directory iterator and with the same
\* options, FileWalker::walk and a collected FileWalkerIterator return the
\* same entries in the same order, the root dropped, or an error of the same
\* kind raised at the same item.
C27_WalkersAgree ==
    WalkReturned =>
        LET items == WalkDir(woptions.follow_links, woptions.max_depth)
            other == IF api = "walk" THEN CollectedIterator(items, FALSE, <<>>)
                     ELSE WalkedAll(items, TRUE, <<>>)
        IN  /\ entries = other.entries
            /\ werror = other.error
            /\ WalkedAll(items, TRUE, <<>>).left = CollectedIterator(items, FALSE, <<>>).left

(***************************************************************************)
(* Claims about what the calls of AdaptiveThreadPool change                *)
(***************************************************************************)

\* the value of the most recent adjust_thread_count, min_threads before the
\* first call
LastAdjusted == IF ret_adjust = NoValue THEN config.min_threads ELSE ret_adjust

\* C26: the cached thread count is always the value the most recent
\* adjust_thread_count returned (min_threads before the first call), so
\* get_thread_count returns that value; update_directory_count leaves the
\* cached thread count alone, and adjust_thread_count leaves the stored
\* directory count and the configuration alone.
C26_FrameOfAdjust ==
    /\ [](current_threads = LastAdjusted)
    /\ [][/\ get_thread_count => (ret_get' = LastAdjusted)
          /\ update_directory_count => (current_threads' = current_threads)
          /\ adjust_thread_count => /\ directory_count' = directory_count
                                    /\ config' = config]_vars

\* C26 witness: a count was stored after an adjustment that moved the thread
\* count off min_threads, and get_thread_count has returned the adjusted value.
C26_Witness ==
    /\ ret_adjust # NoValue
    /\ ret_adjust # config.min_threads
    /\ directory_count # dir_count
    /\ directory_count # 0
    /\ ret_get = ret_adjust

(***************************************************************************)
(* Claims about the validation of the command line                         *)
(***************************************************************************)

\* the patterns given on the command line
CliPatterns == cli.name \o cli.iname

\* C25: Cli::validate returns an error iff the search path does not exist,
\* max_depth is 0 or a name pattern is not a valid glob, the first of these in
\* that order; no Finder is built and no traversal starts unless validate was
\* called and returned Ok, so no traversal runs with max_depth = 0.
C25_ValidatedInput ==
    /\ (validation # "none") =>
          validation =
              IF fs.root = "missing" THEN "FileNotFound"
              ELSE IF cli.max_depth = 0 THEN "Other"
              ELSE IF \E i \in 1..Len(CliPatterns) : pattern_error(CliPatterns[i])
              THEN "PatternError"
              ELSE "Ok"
    /\ (api = "finder" /\ wphase \in {"new", "done"}) =>
          validation = "Ok"
    /\ (api = "finder" /\ wphase = "done") => woptions.max_depth # 0

(***************************************************************************)
(* Claims about the order of what Finder::find returns                     *)
(***************************************************************************)

\* C24: Finder::find, the entry point main uses when parallel search is not
\* requested, processes one entry at a time, and a second call on the same
\* unchanged tree with the same options and filter returns the same paths in
\* the same order as the first.
C24_FindIsSequential ==
    /\ (api = "finder" /\ wphase = "bridge") => Cardinality(BusyWorkers) <= 1
    /\ (FinderReturned /\ previous.some) => entries = previous.val

(***************************************************************************)
(* Claims about termination                                                *)
(***************************************************************************)

\* the paths a traversal has named so far: listed, sent or handed to a worker
NamedPaths ==
    {results[i] : i \in 1..Len(results)} \cup {m.path : m \in sent} \cup tasks

\* the path goes through a symbolic link that points back to an ancestor
ThroughCycle(p) == \E j \in 1..(Len(p) - 1) : fs.kind[p[j]] = "looplink"

====
